---- MODULE Spec2Model ----
(***************************************************************************)
(* Streaming execution subsystem of aponi_launch.py: the concurrency gate  *)
(* (_active_streams), the task registry (TASKS) with its TTL reaper, the   *)
(* producer thread run_proc_to_queue that copies a child's stdout/stderr   *)
(* into the task's queue, and the /api/stream consumer that drains it.     *)
(*                                                                         *)
(* Texts are sequences of chunks: a chunk is a run of non-blank characters *)
(* ("a", "__APOni_TASK_DONE__"), one blank (" "), one newline ("\n") or a  *)
(* literal prefix of the program ("[ERR] ", "[EXC] ").  The empty string   *)
(* is <<>>.  Time is counted in ticks of 30 seconds.                       *)
(*                                                                         *)
(* Further parts of aponi_launch.py: the sliding-window limiter            *)
(* rate_allowed, the sandbox check safe_path, and the file endpoints       *)
(* /api/write (atomic_write), /api/create, /api/delete and /api/read on a  *)
(* small tree with inodes, directories and symbolic links.                 *)
(***************************************************************************)
EXTENDS Integers, Sequences, FiniteSets, TLC

----------------------------------------------------------------------------
(* Bounds of the model *)

NumReq == 3          \* POST /api/run_stream requests (one handler thread each)
NumCons == 2         \* GET /api/stream requests (one handler thread each)
MaxTime == 3         \* last tick of the clock
MaxWrites == 2       \* most lines one child writes
PipeCap == 1         \* lines an OS pipe holds before the child's write blocks
MaxPings == 1        \* keep-alives counted per consumer
NumThreads == 2      \* handler threads inside rate_allowed at one time
MaxCalls == 4        \* calls of rate_allowed in one behaviour
MaxSegs == 3         \* most segments of a caller-supplied path
NumWriters == 2      \* concurrent file requests (one handler thread each)

(* Program constants *)

MAX_CONCURRENT_STREAMS == 2     \* APONI_MAX_CONCURRENT_STREAMS
MAX_TASKS == 2                  \* the literal 256 of spawn_task, scaled
TASK_TTL == 1                   \* APONI_TASK_TTL, in ticks
REAP_SLEEP == 1                 \* time.sleep(30) of the reaper, in ticks
RATE_LIMIT_MAX == 2             \* APONI_RATE_LIMIT_MAX
RATE_LIMIT_WINDOW == 1          \* APONI_RATE_LIMIT_WINDOW, in ticks
RUN_TIMEOUT == 1                \* APONI_RUN_TIMEOUT, in ticks
API_TOKEN == "s3cret"           \* APONI_TOKEN, configured

None == -1                      \* Python's None in a finished_at slot

Reqs == 1..NumReq               \* a request's task id is its own number (uuid4)
Cons == 1..NumCons
Streams == {"out", "err"}
Threads == 1..NumThreads        \* request threads of the ThreadingHTTPServer
Ips == {"10.0.0.1", "10.0.0.2"} \* client addresses, the limiter's identities
Writers == 1..NumWriters        \* request threads of the file endpoints

\* ROOT = Path(APONI_ROOT).resolve(): a path is a sequence of names from /,
\* a name a sequence of chunks
ROOT == << <<"home">>, <<"ADAAD">> >>

\* the tree at start: /, /home, /etc, ROOT, ROOT/sub and the file ROOT/a
InitDirs == { <<>>, << <<"home">> >>, << <<"etc">> >>, ROOT, Append(ROOT, <<"sub">>) }
InitNames == (Append(ROOT, <<"a">>) :> 1)

\* file contents are sequences of chunks <<writer, k>>; writer 0 wrote
\* what ROOT/a holds at start
OldContent == << <<0, 1>> >>

TASK_DONE == <<"__APOni_TASK_DONE__">>

\* threads that serve a POST; thread p handles request p and file request p
Posts == {1, 2}

\* no request yet; the key fields are "" when the request has none
NoKeys == [x_api_key |-> "", api_key |-> "", query |-> ""]
NoPost == [ep |-> "none", keys |-> NoKeys, json |-> TRUE, status |-> "none"]
NoRun == [pc |-> "idle", child |-> "none", deadline |-> 0]

\* the three locks of aponi_launch.py, and the threads that take them: a
\* thread is <<kind, number>>; producer n is started by handler n
Locks == {"_rate_lock", "TASKS_LOCK", "_active_streams_lock"}
Free == <<"nobody", 0>>
LockReqs == {1, 2, 3}
LockThreads ==
    ({"handler", "producer"} \X LockReqs) \cup {<<"consumer", 1>>, <<"reaper", 0>>}

\* data.get("content", ""): the default, a string of no characters
NoContent == [str |-> TRUE, chars |-> <<>>]

\* the locals of rate_limited's wrapper before its first request
NoFlaskReq == [ip |-> "10.0.0.1", ep |-> "none", now |-> 0, timestamps |-> <<>>]

\* a "path" field that is not there (None), and the empty string
NoPath == [given |-> FALSE, abs |-> FALSE, segs |-> <<>>]
EmptyPath == [given |-> TRUE, abs |-> FALSE, segs |-> <<>>]
NL == "\n"

----------------------------------------------------------------------------
VARIABLES
    now,                \* time.time()
    _active_streams,    \* the gate counter
    TASKS,              \* tid -> [finished_at]; the queue of tid is q[tid]
    q,                  \* the queue.Queue created by request r
    pc,                 \* position of request r: handler, then producer thread
    out, err,           \* locals of run_proc_to_queue
    child,              \* "none" | "running" | "exited"
    script,             \* what the child of r writes: Seq([s, text])
    pos,                \* next write of the child
    pipe,               \* pipe[r][s]: lines written and not yet read
    emitted,            \* history: every put of the producer, with its origin
    cpc, ctid,          \* consumer: position, task id
    received,           \* history: payloads a consumer wrote to its client
    pings,              \* history: keep-alives a consumer sent
    rpc, rnow, wake,    \* reaper: position, its local now, end of its sleep
    _rate_store,        \* ip -> timestamps of the admitted calls it keeps
    rlpc, rlip, rlnow,  \* rate_allowed in thread th: position, ip, local now
    admitted,           \* history: ip -> timestamps of every admitted call
    ncalls,             \* history: calls of rate_allowed started so far
    sp_arg, sp_ret,     \* safe_path: its last argument and what it returned
    names,              \* the tree: path of a regular file -> its inode
    dirs,               \* the tree: paths of the directories
    inode,              \* inode -> content, a sequence of chunks
    wpc, wp,            \* file request of thread w: position, resolved path
    wfd, wn,            \* its open temporary file, chunks written so far
    rd,                 \* history: what the last read of a file returned
    returncode,         \* proc.returncode of the child of request r
    resp,               \* what the handler of request r answered, if it did
    body,               \* history: the path fields request r came with
    post,               \* POST of thread p: endpoint, key fields, answer
    run,                \* /api/run of thread p: position, child, deadline
    flask_rate_store,   \* _rate_store of aponi_server.py: ip -> timestamps
    flpc, flreq,        \* rate_limited in thread th: position, its locals
    fladmitted,         \* history: ip -> [ep, t] of every admitted request
    flcalls,            \* history: decorated requests started so far
    sr_arg, sr_ret,     \* safe_resolve: its last argument and what it returned
    wcontent,           \* the "content" field of write request w
    lock,               \* threading.Lock -> the thread that holds it
    lpc                 \* position of a thread, at the grain of its locks

streamVars == << now, _active_streams, TASKS, q, pc, out, err, child, script,
                 pos, pipe, emitted, cpc, ctid, received, pings, rpc, rnow,
                 wake >>

rateVars == << _rate_store, rlpc, rlip, rlnow, admitted, ncalls >>

pathVars == << sp_arg, sp_ret >>

fsVars == << names, dirs, inode, wpc, wp, wfd, wn, rd >>

respVars == << resp, body >>

postVars == << post, run >>

flaskVars == << flask_rate_store, flpc, flreq, fladmitted, flcalls >>

resolveVars == << sr_arg, sr_ret >>

lockVars == << lock, lpc >>

\* the state of the other servers of the repository, and the request
\* fields the earlier parts leave alone
otherVars == << flaskVars, resolveVars, wcontent, lockVars >>

\* what rate_limited never touches
nonFlaskVars == << streamVars, rateVars, pathVars, fsVars, returncode, respVars,
                  postVars, resolveVars, wcontent, lockVars >>

\* what the streaming subsystem never touches
extVars == << rateVars, pathVars, fsVars, returncode, respVars, postVars,
             otherVars >>

\* what rate_allowed never touches
nonRateVars == << streamVars, pathVars, fsVars, returncode, respVars, postVars,
                 otherVars >>

\* what the file requests never touch
nonFsVars == << streamVars, rateVars, pathVars, returncode, respVars, postVars,
               otherVars >>

vars == << streamVars, extVars >>

reqVars == << pc, out, err, child, script, pos, pipe, emitted >>
consVars == << cpc, ctid, received, pings >>
reaperVars == << rpc, rnow, wake >>

----------------------------------------------------------------------------
(* Pure helpers *)

IsSpace(ch) == ch = " " \/ ch = NL

\* str.rstrip(): drop every trailing whitespace character
RECURSIVE rstrip(_)
rstrip(s) ==
    IF s = <<>> THEN <<>>
    ELSE IF IsSpace(s[Len(s)]) THEN rstrip(SubSeq(s, 1, Len(s) - 1))
    ELSE s

\* truthiness of a finished_at value: None and 0 are falsy
Truthy(x) == x # None /\ x # 0

\* mutant: the comparison admits one stream too many
GateAdmitsOffByOne(n) == n <= MAX_CONCURRENT_STREAMS

\* the gate test of do_POST: admit while the counter is below the maximum
GateAdmits(n) == n < MAX_CONCURRENT_STREAMS

\* mutant: the registry takes one entry beyond its maximum
RegistryFullOffByOne(T) == Cardinality(DOMAIN T) > MAX_TASKS

\* spawn_task returns None when the registry is at its maximum
RegistryFull(T) == Cardinality(DOMAIN T) >= MAX_TASKS

\* spawn_task: TASKS[tid] = {"q": q, "finished_at": None}
SpawnTask(T, tid) ==
    [t \in DOMAIN T \cup {tid} |->
        IF t = tid THEN [finished_at |-> None] ELSE T[t]]

\* mark_task_done: set finished_at if the task is still registered
MarkTaskDone(T, tid, t) ==
    IF tid \in DOMAIN T THEN [T EXCEPT ![tid].finished_at = t] ELSE T

\* mutant: an entry is dropped as soon as its age reaches the retention
ExpiredTooEarly(meta, n) == Truthy(meta.finished_at) /\ n - meta.finished_at >= TASK_TTL

\* the reaper's test on one entry
Expired(meta, n) == Truthy(meta.finished_at) /\ n - meta.finished_at > TASK_TTL

\* the registry after one pass of the reaper that read the clock as n
Reap(T, n) ==
    LET keep == {t \in DOMAIN T : ~Expired(T[t], n)}
    IN  [t \in keep |-> T[t]]

\* a put of the producer: the queue gets the text, the history its origin too
Put(r, kind, text) ==
    /\ q' = [q EXCEPT ![r] = Append(@, text)]
    /\ emitted' = [emitted EXCEPT ![r] = Append(@, [kind |-> kind, text |-> text])]

\* readline() can return: a line is there, or the write end is closed
CanRead(r, s) == pipe[r][s] # <<>> \/ child[r] = "exited"
ReadLine(r, s) == IF pipe[r][s] # <<>> THEN Head(pipe[r][s]) ELSE <<>>
AfterRead(r, s) ==
    IF pipe[r][s] # <<>> THEN [pipe EXCEPT ![r][s] = Tail(@)] ELSE pipe

----------------------------------------------------------------------------
Init ==
    /\ now = 1
    /\ _active_streams = 0
    /\ TASKS = << >>
    /\ q = [r \in Reqs |-> <<>>]
    /\ pc = [r \in Reqs |-> "idle"]
    /\ out = [r \in Reqs |-> <<>>]
    /\ err = [r \in Reqs |-> <<>>]
    /\ child = [r \in Reqs |-> "none"]
    /\ script = [r \in Reqs |-> <<>>]
    /\ pos = [r \in Reqs |-> 1]
    /\ pipe = [r \in Reqs |-> [s \in Streams |-> <<>>]]
    /\ emitted = [r \in Reqs |-> <<>>]
    /\ cpc = [c \in Cons |-> "idle"]
    /\ ctid = [c \in Cons |-> 0]
    /\ received = [c \in Cons |-> <<>>]
    /\ pings = [c \in Cons |-> 0]
    /\ rpc = "sleep"
    /\ rnow = 0
    /\ wake = 1
    /\ _rate_store = [ip \in Ips |-> <<>>]
    /\ rlpc = [th \in Threads |-> "idle"]
    /\ rlip = [th \in Threads |-> "10.0.0.1"]
    /\ rlnow = [th \in Threads |-> 0]
    /\ admitted = [ip \in Ips |-> <<>>]
    /\ ncalls = 0
    /\ sp_arg = [abs |-> FALSE, segs |-> <<>>]
    /\ sp_ret = [ok |-> FALSE, path |-> <<>>, error |-> "not called"]
    /\ names = InitNames
    /\ dirs = InitDirs
    /\ inode = << OldContent >>
    /\ wpc = [w \in Writers |-> "idle"]
    /\ wp = [w \in Writers |-> <<>>]
    /\ wfd = [w \in Writers |-> 0]
    /\ wn = [w \in Writers |-> 0]
    /\ rd = [path |-> <<>>, content |-> <<>>]
    /\ returncode = [r \in Reqs |-> None]
    /\ resp = [r \in Reqs |-> None]
    /\ body = [r \in Reqs |-> [data |-> NoPath, query |-> NoPath]]
    /\ post = [p \in Posts |-> NoPost]
    /\ run = [p \in Posts |-> NoRun]
    /\ flask_rate_store = [ip \in Ips |-> <<>>]
    /\ flpc = [th \in Threads |-> "idle"]
    /\ flreq = [th \in Threads |-> NoFlaskReq]
    /\ fladmitted = [ip \in Ips |-> <<>>]
    /\ flcalls = 0
    /\ sr_arg = [abs |-> FALSE, segs |-> <<>>]
    /\ sr_ret = [ok |-> FALSE, path |-> <<>>, error |-> "not called"]
    /\ wcontent = [w \in Writers |-> NoContent]
    /\ lock = [l \in Locks |-> Free]
    /\ lpc = [th \in LockThreads |-> IF th[1] = "producer" THEN "unstarted" ELSE "idle"]

----------------------------------------------------------------------------
(* POST /api/run_stream: the handler thread *)

\* validation failed: 400 or 404 before anything is acquired
RunStreamReject(r) ==
    /\ pc[r] = "idle"
    /\ pc' = [pc EXCEPT ![r] = "rejected"]
    /\ UNCHANGED << now, _active_streams, TASKS, q, out, err, child, script,
                    pos, pipe, emitted >>
    /\ UNCHANGED consVars /\ UNCHANGED reaperVars
    /\ UNCHANGED extVars

\* mutant: the counter is incremented without the test against the maximum
RunStreamGateUnchecked(r) ==
    /\ pc[r] = "idle"
    /\ _active_streams' = _active_streams + 1
    /\ pc' = [pc EXCEPT ![r] = "spawn_task"]
    /\ UNCHANGED << now, TASKS, q, out, err, child, script, pos, pipe, emitted >>
    /\ UNCHANGED consVars /\ UNCHANGED reaperVars
    /\ UNCHANGED extVars

\* the gate, under _active_streams_lock: 429, or count the stream in
RunStreamGate(r) ==
    /\ pc[r] = "idle"
    /\ IF GateAdmits(_active_streams)
       THEN /\ _active_streams' = _active_streams + 1
            /\ pc' = [pc EXCEPT ![r] = "spawn_task"]
       ELSE /\ pc' = [pc EXCEPT ![r] = "denied"]
            /\ UNCHANGED _active_streams
    /\ UNCHANGED << now, TASKS, q, out, err, child, script, pos, pipe, emitted >>
    /\ UNCHANGED consVars /\ UNCHANGED reaperVars
    /\ UNCHANGED extVars

\* spawn_task, under TASKS_LOCK; on success the producer thread is started
\* and the handler answers with the task id
RunStreamSpawnTask(r) ==
    /\ pc[r] = "spawn_task"
    /\ IF RegistryFull(TASKS)
       THEN /\ pc' = [pc EXCEPT ![r] = "release_full"]
            /\ UNCHANGED TASKS
       ELSE /\ TASKS' = SpawnTask(TASKS, r)
            /\ pc' = [pc EXCEPT ![r] = "popen"]
    /\ UNCHANGED << now, _active_streams, q, out, err, child, script, pos,
                    pipe, emitted >>
    /\ UNCHANGED consVars /\ UNCHANGED reaperVars
    /\ UNCHANGED extVars

\* mutant: the 503 path forgets to give the gate slot back
RunStreamReleaseFullLeaks(r) ==
    /\ pc[r] = "release_full"
    /\ pc' = [pc EXCEPT ![r] = "full"]
    /\ UNCHANGED << now, _active_streams, TASKS, q, out, err, child, script,
                    pos, pipe, emitted >>
    /\ UNCHANGED consVars /\ UNCHANGED reaperVars
    /\ UNCHANGED extVars

\* task queue full: give the gate slot back, answer 503
RunStreamReleaseFull(r) ==
    /\ pc[r] = "release_full"
    /\ _active_streams' = _active_streams - 1
    /\ pc' = [pc EXCEPT ![r] = "full"]
    /\ UNCHANGED << now, TASKS, q, out, err, child, script, pos, pipe, emitted >>
    /\ UNCHANGED consVars /\ UNCHANGED reaperVars
    /\ UNCHANGED extVars

----------------------------------------------------------------------------
(* run_proc_to_queue: the producer thread *)

\* subprocess.Popen succeeds: the child runs the program sc
Popen(r, sc) ==
    /\ pc[r] = "popen"
    /\ child' = [child EXCEPT ![r] = "running"]
    /\ script' = [script EXCEPT ![r] = sc]
    /\ pc' = [pc EXCEPT ![r] = "read_out"]
    /\ UNCHANGED << now, _active_streams, TASKS, q, out, err, pos, pipe, emitted >>
    /\ UNCHANGED consVars /\ UNCHANGED reaperVars
    /\ UNCHANGED extVars

\* subprocess.Popen raises (no interpreter, no permission, ...)
PopenFail(r) ==
    /\ pc[r] = "popen"
    /\ pc' = [pc EXCEPT ![r] = "exc_put"]
    /\ UNCHANGED << now, _active_streams, TASKS, q, out, err, child, script,
                    pos, pipe, emitted >>
    /\ UNCHANGED consVars /\ UNCHANGED reaperVars
    /\ UNCHANGED extVars

\* out = proc.stdout.readline()
ReadOut(r) ==
    /\ pc[r] = "read_out"
    /\ CanRead(r, "out")
    /\ out' = [out EXCEPT ![r] = ReadLine(r, "out")]
    /\ pipe' = AfterRead(r, "out")
    /\ pc' = [pc EXCEPT ![r] = "read_err"]
    /\ UNCHANGED << now, _active_streams, TASKS, q, err, child, script, pos, emitted >>
    /\ UNCHANGED consVars /\ UNCHANGED reaperVars
    /\ UNCHANGED extVars

\* err = proc.stderr.readline(); then the two "if" tests on the locals
ReadErr(r) ==
    /\ pc[r] = "read_err"
    /\ CanRead(r, "err")
    /\ err' = [err EXCEPT ![r] = ReadLine(r, "err")]
    /\ pipe' = AfterRead(r, "err")
    /\ pc' = [pc EXCEPT ![r] =
                IF out[r] # <<>> THEN "put_out"
                ELSE IF ReadLine(r, "err") # <<>> THEN "put_err"
                ELSE "poll"]
    /\ UNCHANGED << now, _active_streams, TASKS, q, out, child, script, pos, emitted >>
    /\ UNCHANGED consVars /\ UNCHANGED reaperVars
    /\ UNCHANGED extVars

\* a readline raises on the line it was given (text=True decoding)
ReadFail(r, s) ==
    /\ pc[r] = (IF s = "out" THEN "read_out" ELSE "read_err")
    /\ pipe[r][s] # <<>>
    /\ pipe' = AfterRead(r, s)
    /\ pc' = [pc EXCEPT ![r] = "exc_put"]
    /\ UNCHANGED << now, _active_streams, TASKS, q, out, err, child, script,
                    pos, emitted >>
    /\ UNCHANGED consVars /\ UNCHANGED reaperVars
    /\ UNCHANGED extVars

\* mutant: after a stdout line the loop goes round without "if err"
PutOutDropsErr(r) ==
    /\ pc[r] = "put_out"
    /\ Put(r, "out", rstrip(out[r]))
    /\ pc' = [pc EXCEPT ![r] = "read_out"]
    /\ UNCHANGED << now, _active_streams, TASKS, out, err, child, script, pos, pipe >>
    /\ UNCHANGED consVars /\ UNCHANGED reaperVars
    /\ UNCHANGED extVars

\* if out: q.put(out.rstrip())
PutOut(r) ==
    /\ pc[r] = "put_out"
    /\ Put(r, "out", rstrip(out[r]))
    /\ pc' = [pc EXCEPT ![r] = IF err[r] # <<>> THEN "put_err" ELSE "read_out"]
    /\ UNCHANGED << now, _active_streams, TASKS, out, err, child, script, pos, pipe >>
    /\ UNCHANGED consVars /\ UNCHANGED reaperVars
    /\ UNCHANGED extVars

\* if err: q.put("[ERR] " + err.rstrip())
PutErr(r) ==
    /\ pc[r] = "put_err"
    /\ Put(r, "err", <<"[ERR] ">> \o rstrip(err[r]))
    /\ pc' = [pc EXCEPT ![r] = "read_out"]
    /\ UNCHANGED << now, _active_streams, TASKS, out, err, child, script, pos, pipe >>
    /\ UNCHANGED consVars /\ UNCHANGED reaperVars
    /\ UNCHANGED extVars

\* if out == '' and err == '' and proc.poll() is not None: break
Poll(r) ==
    /\ pc[r] = "poll"
    /\ pc' = [pc EXCEPT ![r] = IF child[r] = "exited" THEN "put_done" ELSE "read_out"]
    /\ UNCHANGED << now, _active_streams, TASKS, q, out, err, child, script,
                    pos, pipe, emitted >>
    /\ UNCHANGED consVars /\ UNCHANGED reaperVars
    /\ UNCHANGED extVars

\* q.put("__APOni_TASK_DONE__") after the loop
PutDone(r) ==
    /\ pc[r] = "put_done"
    /\ Put(r, "done", TASK_DONE)
    /\ pc' = [pc EXCEPT ![r] = "finally_mark"]
    /\ UNCHANGED << now, _active_streams, TASKS, out, err, child, script, pos, pipe >>
    /\ UNCHANGED consVars /\ UNCHANGED reaperVars
    /\ UNCHANGED extVars

\* mutant: the exception is swallowed, only the marker follows
ExcPutSilent(r) ==
    /\ pc[r] = "exc_put"
    /\ pc' = [pc EXCEPT ![r] = "exc_done"]
    /\ UNCHANGED << now, _active_streams, TASKS, q, out, err, child, script,
                    pos, pipe, emitted >>
    /\ UNCHANGED consVars /\ UNCHANGED reaperVars
    /\ UNCHANGED extVars

\* except: q.put("[EXC] " + str(e))
ExcPut(r) ==
    /\ pc[r] = "exc_put"
    /\ Put(r, "exc", <<"[EXC] ", "e">>)
    /\ pc' = [pc EXCEPT ![r] = "exc_done"]
    /\ UNCHANGED << now, _active_streams, TASKS, out, err, child, script, pos, pipe >>
    /\ UNCHANGED consVars /\ UNCHANGED reaperVars
    /\ UNCHANGED extVars

\* except: q.put("__APOni_TASK_DONE__")
ExcDone(r) ==
    /\ pc[r] = "exc_done"
    /\ Put(r, "done", TASK_DONE)
    /\ pc' = [pc EXCEPT ![r] = "finally_mark"]
    /\ UNCHANGED << now, _active_streams, TASKS, out, err, child, script, pos, pipe >>
    /\ UNCHANGED consVars /\ UNCHANGED reaperVars
    /\ UNCHANGED extVars

\* mutant: the finally clause gives the slot back without mark_task_done
FinallyMarkSkipped(r) ==
    /\ pc[r] = "finally_mark"
    /\ pc' = [pc EXCEPT ![r] = "finally_release"]
    /\ UNCHANGED << now, _active_streams, TASKS, q, out, err, child, script, pos,
                    pipe, emitted >>
    /\ UNCHANGED consVars /\ UNCHANGED reaperVars
    /\ UNCHANGED extVars

\* finally: mark_task_done(tid)
FinallyMark(r) ==
    /\ pc[r] = "finally_mark"
    /\ TASKS' = MarkTaskDone(TASKS, r, now)
    /\ pc' = [pc EXCEPT ![r] = "finally_release"]
    /\ UNCHANGED << now, _active_streams, q, out, err, child, script, pos,
                    pipe, emitted >>
    /\ UNCHANGED consVars /\ UNCHANGED reaperVars
    /\ UNCHANGED extVars

\* the finally clause gives back two slots
FinallyReleaseTwice(r) ==
    /\ pc[r] = "finally_release"
    /\ _active_streams' = _active_streams - 2
    /\ pc' = [pc EXCEPT ![r] = "done"]
    /\ UNCHANGED << now, TASKS, q, out, err, child, script, pos, pipe, emitted >>
    /\ UNCHANGED consVars /\ UNCHANGED reaperVars
    /\ UNCHANGED extVars

\* finally: _active_streams -= 1, under _active_streams_lock
FinallyRelease(r) ==
    /\ pc[r] = "finally_release"
    /\ _active_streams' = _active_streams - 1
    /\ pc' = [pc EXCEPT ![r] = "done"]
    /\ UNCHANGED << now, TASKS, q, out, err, child, script, pos, pipe, emitted >>
    /\ UNCHANGED consVars /\ UNCHANGED reaperVars
    /\ UNCHANGED extVars

----------------------------------------------------------------------------
(* The child process *)

\* the child writes its next line; the write blocks while the pipe is full
ChildWrite(r) ==
    /\ child[r] = "running"
    /\ pos[r] <= Len(script[r])
    /\ LET w == script[r][pos[r]]
       IN  /\ Len(pipe[r][w.s]) < PipeCap
           /\ pipe' = [pipe EXCEPT ![r][w.s] = Append(@, w.text \o <<NL>>)]
    /\ pos' = [pos EXCEPT ![r] = @ + 1]
    /\ UNCHANGED << now, _active_streams, TASKS, q, pc, out, err, child, script,
                    emitted >>
    /\ UNCHANGED consVars /\ UNCHANGED reaperVars
    /\ UNCHANGED extVars

\* the child has written everything and exits with code, which closes
\* both pipes
ChildExitCode(r, code) ==
    /\ child[r] = "running"
    /\ pos[r] > Len(script[r])
    /\ child' = [child EXCEPT ![r] = "exited"]
    /\ returncode' = [returncode EXCEPT ![r] = code]
    /\ UNCHANGED << now, _active_streams, TASKS, q, pc, out, err, script, pos,
                    pipe, emitted >>
    /\ UNCHANGED consVars /\ UNCHANGED reaperVars
    /\ UNCHANGED << rateVars, pathVars, fsVars, respVars, postVars, otherVars >>

\* the child exits with code 0
ChildExit(r) == ChildExitCode(r, 0)

----------------------------------------------------------------------------
(* GET /api/stream: the consumer thread *)

\* the lookup left out: the stream opens for any id
AttachUnchecked(c, t) ==
    /\ cpc[c] = "idle"
    /\ ctid' = [ctid EXCEPT ![c] = t]
    /\ cpc' = [cpc EXCEPT ![c] = "get"]
    /\ UNCHANGED << now, _active_streams, TASKS, q, received, pings >>
    /\ UNCHANGED reqVars /\ UNCHANGED reaperVars
    /\ UNCHANGED extVars

\* lookup under TASKS_LOCK: 404 for an unknown id, else the stream opens
Attach(c, t) ==
    /\ cpc[c] = "idle"
    /\ ctid' = [ctid EXCEPT ![c] = t]
    /\ cpc' = [cpc EXCEPT ![c] = IF t \in DOMAIN TASKS THEN "get" ELSE "notfound"]
    /\ UNCHANGED << now, _active_streams, TASKS, q, received, pings >>
    /\ UNCHANGED reqVars /\ UNCHANGED reaperVars
    /\ UNCHANGED extVars

\* line = q.get(timeout=30) returns an item and wfile.write(msg) succeeds;
\* the sentinel ends the loop after mark_task_done
ConsGet(c) ==
    /\ cpc[c] = "get"
    /\ q[ctid[c]] # <<>>
    /\ q' = [q EXCEPT ![ctid[c]] = Tail(@)]
    /\ received' = [received EXCEPT ![c] = Append(@, Head(q[ctid[c]]))]
    /\ cpc' = [cpc EXCEPT ![c] =
                 IF Head(q[ctid[c]]) = TASK_DONE THEN "mark" ELSE "get"]
    /\ UNCHANGED << now, _active_streams, TASKS, ctid, pings >>
    /\ UNCHANGED << pc, out, err, child, script, pos, pipe, emitted >>
    /\ UNCHANGED reaperVars
    /\ UNCHANGED extVars

\* q.get returns an item and wfile.write(msg) raises BrokenPipeError: break
ConsGetBrokenPipe(c) ==
    /\ cpc[c] = "get"
    /\ q[ctid[c]] # <<>>
    /\ q' = [q EXCEPT ![ctid[c]] = Tail(@)]
    /\ cpc' = [cpc EXCEPT ![c] = "closed"]
    /\ UNCHANGED << now, _active_streams, TASKS, ctid, received, pings >>
    /\ UNCHANGED << pc, out, err, child, script, pos, pipe, emitted >>
    /\ UNCHANGED reaperVars
    /\ UNCHANGED extVars

\* queue.Empty after 30 s: the keep-alive is written and the loop continues
ConsTimeout(c) ==
    /\ cpc[c] = "get"
    /\ q[ctid[c]] = <<>>
    /\ pings[c] < MaxPings
    /\ pings' = [pings EXCEPT ![c] = @ + 1]
    /\ UNCHANGED << now, _active_streams, TASKS, q, cpc, ctid, received >>
    /\ UNCHANGED reqVars /\ UNCHANGED reaperVars
    /\ UNCHANGED extVars

\* mutant: a consumer that lost its client drops the task from the registry
ConsPingBrokenPipeDrops(c) ==
    /\ cpc[c] = "get"
    /\ q[ctid[c]] = <<>>
    /\ cpc' = [cpc EXCEPT ![c] = "closed"]
    /\ TASKS' = [t \in DOMAIN TASKS \ {ctid[c]} |-> TASKS[t]]
    /\ UNCHANGED << now, _active_streams, q, ctid, received, pings >>
    /\ UNCHANGED reqVars /\ UNCHANGED reaperVars
    /\ UNCHANGED extVars

\* queue.Empty after 30 s and the keep-alive raises BrokenPipeError: break
ConsPingBrokenPipe(c) ==
    /\ cpc[c] = "get"
    /\ q[ctid[c]] = <<>>
    /\ cpc' = [cpc EXCEPT ![c] = "closed"]
    /\ UNCHANGED << now, _active_streams, TASKS, q, ctid, received, pings >>
    /\ UNCHANGED reqVars /\ UNCHANGED reaperVars
    /\ UNCHANGED extVars

\* mark_task_done(tid) after the sentinel was forwarded
ConsMark(c) ==
    /\ cpc[c] = "mark"
    /\ TASKS' = MarkTaskDone(TASKS, ctid[c], now)
    /\ cpc' = [cpc EXCEPT ![c] = "ended"]
    /\ UNCHANGED << now, _active_streams, q, ctid, received, pings >>
    /\ UNCHANGED reqVars /\ UNCHANGED reaperVars
    /\ UNCHANGED extVars

----------------------------------------------------------------------------
(* cleanup_task_ttl_loop and the clock *)

\* now = time.time(), once the sleep is over
ReaperReadClock ==
    /\ rpc = "sleep"
    /\ now >= wake
    /\ rnow' = now
    /\ rpc' = "sweep"
    /\ UNCHANGED << now, _active_streams, TASKS, q, wake >>
    /\ UNCHANGED reqVars /\ UNCHANGED consVars
    /\ UNCHANGED extVars

\* the pass under TASKS_LOCK, then time.sleep(30)
ReaperSweep ==
    /\ rpc = "sweep"
    /\ TASKS' = Reap(TASKS, rnow)
    /\ wake' = now + REAP_SLEEP
    /\ rpc' = "sleep"
    /\ UNCHANGED << now, _active_streams, q, rnow >>
    /\ UNCHANGED reqVars /\ UNCHANGED consVars
    /\ UNCHANGED extVars

Tick ==
    /\ now < MaxTime
    /\ now' = now + 1
    /\ UNCHANGED << _active_streams, TASKS, q >>
    /\ UNCHANGED reqVars /\ UNCHANGED consVars /\ UNCHANGED reaperVars
    /\ UNCHANGED extVars

----------------------------------------------------------------------------
(* Inputs *)

Writes(lines) == [s : Streams, text : lines]

\* every program of at most n writes
Scripts(lines, n) == UNION { [1..k -> Writes(lines)] : k \in 0..n }

\* children of the gate and registry specification: silent, or one line
QuietScripts == Scripts({<<"a">>}, 1)

\* lines of the streaming specification: plain, with a trailing blank, and
\* the text of the sentinel
StreamLines == { <<"a">>, <<"b", " ">>, TASK_DONE }
StreamScripts == Scripts(StreamLines, MaxWrites)
StreamReqs == {1}

----------------------------------------------------------------------------
(* Specifications *)

Handler(r) ==
    \/ RunStreamReject(r)
    \/ RunStreamGate(r)
    \/ RunStreamSpawnTask(r)
    \/ RunStreamReleaseFull(r)

Producer(r) ==
    \/ PopenFail(r)
    \/ ReadOut(r)
    \/ ReadErr(r)
    \/ \E s \in Streams : ReadFail(r, s)
    \/ PutOut(r)
    \/ PutErr(r)
    \/ Poll(r)
    \/ PutDone(r)
    \/ ExcPut(r)
    \/ ExcDone(r)
    \/ FinallyMark(r)
    \/ FinallyRelease(r)

Child(r) == ChildWrite(r) \/ ChildExit(r)

Consumer(c, tids) ==
    \/ \E t \in tids : Attach(c, t)
    \/ ConsGet(c)
    \/ ConsGetBrokenPipe(c)
    \/ ConsTimeout(c)
    \/ ConsPingBrokenPipe(c)
    \/ ConsMark(c)

Reaper == ReaperReadClock \/ ReaperSweep

\* the steps of the producer thread that a silent child can lead to
QuietProducer(r) ==
    \/ PopenFail(r)
    \/ ReadOut(r)
    \/ ReadErr(r)
    \/ Poll(r)
    \/ PutDone(r)
    \/ ExcPut(r)
    \/ ExcDone(r)
    \/ FinallyMark(r)
    \/ FinallyRelease(r)

\* the gate under NumReq concurrent requests, every way an execution ends
Next ==
    \/ \E r \in Reqs : Handler(r)
    \/ \E r \in Reqs : \E sc \in QuietScripts : Popen(r, sc)
    \/ \E r \in Reqs : Producer(r)
    \/ \E r \in Reqs : Child(r)

Spec == Init /\ [][Next]_vars

\* the registry under NumReq concurrent requests with silent children, the
\* reaper and the clock
RegistryNext ==
    \/ \E r \in Reqs : Handler(r)
    \/ \E r \in Reqs : Popen(r, <<>>)
    \/ \E r \in Reqs : QuietProducer(r)
    \/ \E r \in Reqs : ChildExit(r)
    \/ Reaper
    \/ Tick

RegistrySpec == Init /\ [][RegistryNext]_vars

\* one streaming execution, from the gate to the end of its producer thread,
\* with a child that runs any program of StreamScripts
ProducerNext ==
    \/ \E r \in StreamReqs : RunStreamGate(r)
    \/ \E r \in StreamReqs : RunStreamSpawnTask(r)
    \/ \E r \in StreamReqs : \E sc \in StreamScripts : Popen(r, sc)
    \/ \E r \in StreamReqs : Producer(r)
    \/ \E r \in StreamReqs : Child(r)

ProducerSpec == Init /\ [][ProducerNext]_vars

\* one streaming execution with its consumers
StreamNext ==
    \/ \E r \in StreamReqs : RunStreamGate(r)
    \/ \E r \in StreamReqs : RunStreamSpawnTask(r)
    \/ \E r \in StreamReqs : \E sc \in StreamScripts : Popen(r, sc)
    \/ \E r \in StreamReqs : Producer(r)
    \/ \E r \in StreamReqs : Child(r)
    \/ \E c \in Cons : Consumer(c, StreamReqs)

StreamSpec == Init /\ [][StreamNext]_vars

\* every thread that can run does run; the child runs whenever its write
\* does not block
StreamFairness ==
    \A r \in StreamReqs :
        /\ WF_vars(RunStreamGate(r))
        /\ WF_vars(RunStreamSpawnTask(r))
        /\ WF_vars(\E sc \in StreamScripts : Popen(r, sc))
        /\ WF_vars(Producer(r))
        /\ WF_vars(Child(r))

FairStreamSpec == Init /\ [][StreamNext]_vars /\ StreamFairness

----------------------------------------------------------------------------
(* Vocabulary of the properties *)

Min(a, b) == IF a < b THEN a ELSE b

\* positions of the producer thread, from its start to its last statement
ProducerPcs == { "popen", "read_out", "read_err", "put_out", "put_err", "poll",
                 "put_done", "exc_put", "exc_done", "finally_mark",
                 "finally_release" }

\* requests that went through the gate and have not given their slot back
Holders == { r \in Reqs : pc[r] \in ProducerPcs \cup {"spawn_task", "release_full"} }

\* admitted streaming executions that have not finished
InProgress == { r \in Reqs : pc[r] \in ProducerPcs }

\* requests that reached the gate, and those it turned away
Attempted == { r \in Reqs : pc[r] \notin {"idle", "rejected"} }
Denied == { r \in Reqs : pc[r] = "denied" }

\* requests that gave a slot back
Released == { r \in Reqs : pc[r] \in {"full", "done"} }

----------------------------------------------------------------------------
(* C1: the gate counter stays within 0..MAX_CONCURRENT_STREAMS in every    *)
(* reachable state, and at no time are more than MAX_CONCURRENT_STREAMS    *)
(* admitted streaming executions unfinished.                               *)
C1_GateBounded ==
    /\ _active_streams \in 0..MAX_CONCURRENT_STREAMS
    /\ Cardinality(InProgress) <= MAX_CONCURRENT_STREAMS

\* the gate is full of running executions and a further request was denied
C1_Witness ==
    /\ _active_streams = MAX_CONCURRENT_STREAMS
    /\ Cardinality(InProgress) = MAX_CONCURRENT_STREAMS
    /\ Denied # {}

(* C2: every request that incremented the gate counter decrements it       *)
(* exactly once, however it ends: the counter always equals the number of  *)
(* requests between their increment and their decrement, so it is 0        *)
(* whenever no admitted request is in progress.                            *)
C2_ReleasedExactlyOnce ==
    /\ _active_streams = Cardinality(Holders)
    /\ Holders = {} => _active_streams = 0

\* three requests ended in three ways (registry full, exception after the
\* child was spawned, normal exit) and the counter is back at 0
C2_Witness ==
    /\ Holders = {}
    /\ _active_streams = 0
    /\ \E a, b, c \in Reqs :
          /\ pc[a] = "full"
          /\ pc[b] = "done" /\ child[b] # "none"
          /\ \E i \in DOMAIN emitted[b] : emitted[b][i].kind = "exc"
          /\ pc[c] = "done" /\ child[c] = "exited"
          /\ \A i \in DOMAIN emitted[c] : emitted[c][i].kind # "exc"

(* C3: gate admission is an atomic compare-and-increment.  A request is    *)
(* admitted iff fewer than the maximum hold a slot at the moment of its    *)
(* check, and it then counts itself in; while no slot has been given back, *)
(* of k acquisitions min(k, max) are admitted and the rest denied (max = 2,*)
(* three acquisitions: two admitted, one denied); and every release leaves *)
(* the counter below the maximum, so that the next acquisition succeeds.   *)
C3_Scenario ==
    Released = {} =>
        /\ Cardinality(Holders) = Min(Cardinality(Attempted), MAX_CONCURRENT_STREAMS)
        /\ Cardinality(Denied) = Cardinality(Attempted) - Cardinality(Holders)

C3_Step ==
    /\ \A r \in Reqs :
          (pc[r] = "idle" /\ pc'[r] \in {"spawn_task", "denied"}) =>
              /\ pc'[r] = "spawn_task" <=>
                     Cardinality(Holders) < MAX_CONCURRENT_STREAMS
              /\ pc'[r] = "spawn_task" => _active_streams' = _active_streams + 1
              /\ pc'[r] = "denied" => _active_streams' = _active_streams
    /\ \A r \in Reqs :
          (r \in Holders /\ r \in Released') =>
              _active_streams' < MAX_CONCURRENT_STREAMS

C3_AtomicAdmission == []C3_Scenario /\ [][C3_Step]_vars

\* three acquisitions with no release between them: two hold a slot, the
\* third was denied
C3_Witness ==
    /\ Released = {}
    /\ Cardinality(Attempted) = MAX_CONCURRENT_STREAMS + 1
    /\ Cardinality(Holders) = MAX_CONCURRENT_STREAMS
    /\ Cardinality(Denied) = 1

----------------------------------------------------------------------------
(* C9: the registry never holds more than MAX_TASKS entries under any      *)
(* interleaving of creations and reaper passes; a create at the maximum    *)
(* returns Full, leaves the registry as it was (nothing is evicted), and   *)
(* no child is spawned for that request.                                   *)
C9_Bound ==
    /\ Cardinality(DOMAIN TASKS) <= MAX_TASKS
    /\ \A r \in Reqs :
          pc[r] \in {"release_full", "full"} =>
              r \notin DOMAIN TASKS /\ child[r] = "none"

C9_Step ==
    \A r \in Reqs :
        (pc[r] = "spawn_task" /\ pc'[r] # "spawn_task") =>
            /\ pc'[r] = "release_full" <=> Cardinality(DOMAIN TASKS) = MAX_TASKS
            /\ pc'[r] = "release_full" => TASKS' = TASKS
            /\ pc'[r] # "release_full" => DOMAIN TASKS' = DOMAIN TASKS \cup {r}

C9_RegistryBounded == []C9_Bound /\ [][C9_Step]_vars

\* a request was answered Full while the registry holds its maximum
C9_Witness ==
    /\ Cardinality(DOMAIN TASKS) = MAX_TASKS
    /\ \E r \in Reqs : pc[r] = "full"

(* C10: a task leaves the registry only in a pass of the reaper, and only  *)
(* if its finished_at is set and now - finished_at > TASK_TTL at that      *)
(* pass; a task with finished_at unset is never removed, and a completed   *)
(* one is never removed while now - finished_at <= TASK_TTL.               *)
C10_Step ==
    \A t \in DOMAIN TASKS :
        t \notin DOMAIN TASKS' =>
            /\ rpc = "sweep"
            /\ TASKS[t].finished_at # None
            /\ now - TASKS[t].finished_at > TASK_TTL

C10_ReapOnlyExpired == [][C10_Step]_vars

\* the reaper removed a finished task and left an unfinished one, which is
\* as old, in the registry
C10_Witness ==
    /\ now = MaxTime
    /\ \E t \in Reqs : pc[t] = "done" /\ t \notin DOMAIN TASKS
    /\ \E t \in DOMAIN TASKS : TASKS[t].finished_at = None

----------------------------------------------------------------------------
(* Vocabulary of the streaming properties *)

IsPrefix(a, b) == Len(a) <= Len(b) /\ a = SubSeq(b, 1, Len(a))

\* positions of the producer after its terminal put
AfterTerminalPcs == { "finally_mark", "finally_release", "done" }

DoneCount(r) ==
    Cardinality({ i \in DOMAIN emitted[r] : emitted[r][i].kind = "done" })

Raised(r) == \E i \in DOMAIN emitted[r] : emitted[r][i].kind = "exc"

\* the lines the child of r has written to stream s so far, without newline
Written(r, s) ==
    LET done == SubSeq(script[r], 1, pos[r] - 1)
        mine == SelectSeq(done, LAMBDA w : w.s = s)
    IN  [i \in 1..Len(mine) |-> mine[i].text]

\* the text of a line event as the child wrote it: without the "[ERR] " mark
EventText(e) == IF e.kind = "err" THEN Tail(e.text) ELSE e.text

\* the events of r's queue history that came from stream s
StreamEvents(r, s) ==
    LET mine == SelectSeq(emitted[r], LAMBDA e : e.kind = s)
    IN  [i \in 1..Len(mine) |-> EventText(mine[i])]

Stripped(lines) == [i \in 1..Len(lines) |-> rstrip(lines[i])]

----------------------------------------------------------------------------
\* places in the queue history of r that hold a terminal event: the consumer
\* knows one by its text alone (payload == "__APOni_TASK_DONE__")
TerminalEvents(r) ==
    { i \in DOMAIN emitted[r] : emitted[r][i].text = TASK_DONE }

(* C4: for every task, exactly one terminal event is put on the task's     *)
(* queue over the whole execution and nothing is enqueued after it: at     *)
(* most one at any time, the last put when there is one, and exactly one   *)
(* once the producer has left its try statement, on the normal-exit path   *)
(* and on the exception path.                                              *)
C4_OneTerminalLast ==
    \A r \in Reqs :
        /\ Cardinality(TerminalEvents(r)) <= 1
        /\ \A i \in TerminalEvents(r) : i = Len(emitted[r])
        /\ pc[r] \in AfterTerminalPcs => Cardinality(TerminalEvents(r)) = 1

\* what does hold: the producer itself puts its marker once, as its last put,
\* on both paths (lines 535 and 538)
ProducerMarkerOnce ==
    \A r \in Reqs :
        /\ DoneCount(r) <= 1
        /\ \A i \in DOMAIN emitted[r] :
              emitted[r][i].kind = "done" => i = Len(emitted[r])
        /\ pc[r] \in AfterTerminalPcs => DoneCount(r) = 1
        /\ pc[r] \in ProducerPcs \ AfterTerminalPcs => DoneCount(r) = 0

(* C5: once a task's finished_at is set, the producer enqueues no further  *)
(* event for that task, whatever the child prints.                         *)
C5_NoEventAfterFinished ==
    [][ \A r \in Reqs :
          (r \in DOMAIN TASKS /\ TASKS[r].finished_at # None) =>
              emitted'[r] = emitted[r] ]_vars

(* C6: every admitted streaming execution whose child writes finitely many *)
(* lines and then exits eventually reaches Terminal (terminal marker       *)
(* enqueued, task marked complete, gate slot released), with pipes of      *)
(* bounded capacity and whether or not a consumer attaches.                *)
C6_ReachesTerminal ==
    \A r \in StreamReqs : (pc[r] = "popen") ~> (pc[r] = "done")

(* C7 as stated: for each stream, the events that came from it are the     *)
(* lines the child wrote to it, in order, none lost or duplicated, and all *)
(* are there when the terminal marker is.                                  *)
C7_EventsEqualLines ==
    \A r \in Reqs : \A s \in Streams :
        /\ IsPrefix(StreamEvents(r, s), Written(r, s))
        /\ (DoneCount(r) = 1 /\ child[r] = "exited") =>
               StreamEvents(r, s) = Written(r, s)

(* C7 as amended: for each stream, the events that came from it are at any *)
(* time the first lines the child wrote to it, in order, each with its     *)
(* trailing whitespace removed; when the read loop ended without an        *)
(* exception they are all of them, and the terminal marker follows them.   *)
C7_EventsAreStrippedLines ==
    \A r \in Reqs : \A s \in Streams :
        /\ IsPrefix(StreamEvents(r, s), Stripped(Written(r, s)))
        /\ (pc[r] \in AfterTerminalPcs /\ ~Raised(r)) =>
               /\ StreamEvents(r, s) = Stripped(Written(r, s))
               /\ pos[r] = Len(script[r]) + 1
               /\ emitted[r][Len(emitted[r])].kind = "done"

\* a normal end after a line on each stream, one of which had a trailing blank
C7_Witness ==
    \E r \in Reqs :
        /\ pc[r] = "done" /\ ~Raised(r)
        /\ Len(StreamEvents(r, "out")) = 1
        /\ Len(StreamEvents(r, "err")) = 1
        /\ StreamEvents(r, "err") # Written(r, "err")

(* C8: every attach to a registered task whose execution finishes, and     *)
(* whose client stays connected, receives the terminal event: an attached  *)
(* consumer that is still waiting once the execution is over has events    *)
(* left to receive.                                                        *)
C8_AttachReachesTerminal ==
    \A c \in Cons :
        (cpc[c] = "get" /\ pc[ctid[c]] = "done") => q[ctid[c]] # <<>>

----------------------------------------------------------------------------
(* C11: a task marked complete at t0 is in the registry at                 *)
(* t0 + TASK_TTL - 1 and is gone from it at t0 + TASK_TTL + 1, with the    *)
(* reaper on its fixed interval.  A removed task never returns, so a task  *)
(* present one tick after its retention ended was present one second       *)
(* after it ended too.  The reaper is on its interval in the states where  *)
(* it sleeps and its wake-up time has not passed.                          *)
ReaperOnSchedule == rpc = "sleep" /\ now <= wake

C11_Absent ==
    \A t \in DOMAIN TASKS :
        (TASKS[t].finished_at # None /\ ReaperOnSchedule) =>
            now < TASKS[t].finished_at + TASK_TTL + 1

C11_Present ==
    \A t \in DOMAIN TASKS :
        (TASKS[t].finished_at # None /\ t \notin DOMAIN TASKS') =>
            now > TASKS[t].finished_at + TASK_TTL - 1

C11_RetentionWindow == []C11_Absent /\ [][C11_Present]_vars

----------------------------------------------------------------------------
(* GET /api/stream against a registry that the reaper empties *)

\* ids a client may ask for: the task of request 1 and an id never created
AttachIds == {1, 2}

\* the clients that attach: one can ask for each id
AttachCons == {1, 2}

\* one execution with a silent child, the reaper, the clock and the
\* consumers, which may attach before the task exists, while it is
\* registered and after it was reaped
AttachNext ==
    \/ \E r \in StreamReqs : RunStreamGate(r)
    \/ \E r \in StreamReqs : RunStreamSpawnTask(r)
    \/ \E r \in StreamReqs : Popen(r, <<>>)
    \/ \E r \in StreamReqs : QuietProducer(r)
    \/ \E r \in StreamReqs : ChildExit(r)
    \/ \E c \in AttachCons : Consumer(c, AttachIds)
    \/ Reaper
    \/ Tick

AttachSpec == Init /\ [][AttachNext]_vars

(* C12: an attach for an id that is not in the registry (never created or  *)
(* already reaped) is answered not-found at once; it delivers no event,    *)
(* then or later, and changes neither the registry nor any queue.          *)
C12_NotFound ==
    \A c \in AttachCons :
        cpc[c] = "notfound" => received[c] = <<>> /\ pings[c] = 0

C12_Step ==
    \A c \in AttachCons :
        /\ (cpc[c] = "idle" /\ cpc'[c] # "idle" /\ ctid'[c] \notin DOMAIN TASKS) =>
              /\ cpc'[c] = "notfound"
              /\ TASKS' = TASKS
              /\ q' = q
        /\ cpc[c] = "notfound" => cpc'[c] = "notfound"

C12_AttachUnknown == []C12_NotFound /\ [][C12_Step]_vars

\* not-found for the id of a finished task the reaper removed, and for an
\* id that never existed
C12_Witness ==
    /\ pc[1] = "done"
    /\ 1 \notin DOMAIN TASKS
    /\ \E c \in AttachCons : cpc[c] = "notfound" /\ ctid[c] = 1
    /\ \E c \in AttachCons : cpc[c] = "notfound" /\ ctid[c] = 2

----------------------------------------------------------------------------
(* rate_allowed: the sliding-window limiter in front of do_GET and do_POST *)

\* the timestamps of arr that are not inside the window that ends at n,
\* boundary included
PruneInclusive(arr, n) == SelectSeq(arr, LAMBDA t : t >= n - RATE_LIMIT_WINDOW)

\* arr = [t for t in arr if t > now - RATE_LIMIT_WINDOW]
Prune(arr, n) == SelectSeq(arr, LAMBDA t : t > n - RATE_LIMIT_WINDOW)

\* now = time.time(): the clock is read before _rate_lock is taken
RateReadClock(th, ip) ==
    /\ rlpc[th] # "lock"
    /\ ncalls < MaxCalls
    /\ ncalls' = ncalls + 1
    /\ rlip' = [rlip EXCEPT ![th] = ip]
    /\ rlnow' = [rlnow EXCEPT ![th] = now]
    /\ rlpc' = [rlpc EXCEPT ![th] = "lock"]
    /\ UNCHANGED << _rate_store, admitted >>
    /\ UNCHANGED nonRateVars

\* a rejected call stores its own timestamp too
RateLockedRecordsRejected(th) ==
    /\ rlpc[th] = "lock"
    /\ LET ip == rlip[th]
           arr == Prune(_rate_store[ip], rlnow[th])
       IN  /\ _rate_store' = [_rate_store EXCEPT ![ip] = Append(arr, rlnow[th])]
           /\ IF Len(arr) >= RATE_LIMIT_MAX
              THEN /\ rlpc' = [rlpc EXCEPT ![th] = "limited"]
                   /\ UNCHANGED admitted
              ELSE /\ admitted' = [admitted EXCEPT ![ip] = Append(@, rlnow[th])]
                   /\ rlpc' = [rlpc EXCEPT ![th] = "ok"]
    /\ UNCHANGED << rlip, rlnow, ncalls >>
    /\ UNCHANGED nonRateVars

\* the block under _rate_lock, one step: prune, then return False with
\* nothing stored, or append now, store the list and return True
RateLocked(th) ==
    /\ rlpc[th] = "lock"
    /\ LET ip == rlip[th]
           arr == Prune(_rate_store[ip], rlnow[th])
       IN  IF Len(arr) >= RATE_LIMIT_MAX
           THEN /\ rlpc' = [rlpc EXCEPT ![th] = "limited"]
                /\ UNCHANGED << _rate_store, admitted >>
           ELSE /\ _rate_store' = [_rate_store EXCEPT ![ip] = Append(arr, rlnow[th])]
                /\ admitted' = [admitted EXCEPT ![ip] = Append(@, rlnow[th])]
                /\ rlpc' = [rlpc EXCEPT ![th] = "ok"]
    /\ UNCHANGED << rlip, rlnow, ncalls >>
    /\ UNCHANGED nonRateVars

\* one thread: its calls follow one another
RateSeqNext ==
    \/ \E ip \in Ips : RateReadClock(1, ip)
    \/ RateLocked(1)
    \/ Tick

RateSeqSpec == Init /\ [][RateSeqNext]_vars

\* NumThreads request threads call rate_allowed concurrently
RateNext ==
    \/ \E th \in Threads : \E ip \in Ips : RateReadClock(th, ip)
    \/ \E th \in Threads : RateLocked(th)
    \/ Tick

RateSpec == Init /\ [][RateNext]_vars

\* the admitted calls of ip whose timestamp is inside the window ending at n
InWindow(ip, n) ==
    { i \in DOMAIN admitted[ip] :
        admitted[ip][i] > n - RATE_LIMIT_WINDOW /\ admitted[ip][i] <= n }

(* C13: a call is admitted iff fewer than RATE_LIMIT_MAX admitted calls of *)
(* its identity have their timestamp inside the current window, so of      *)
(* RATE_LIMIT_MAX + 1 calls at one instant the last is rejected; and no    *)
(* window holds more than RATE_LIMIT_MAX admitted calls of one identity.   *)
C13_Step ==
    \A th \in Threads :
        (rlpc[th] = "lock" /\ rlpc'[th] # "lock") =>
            (rlpc'[th] = "ok" <=>
                Cardinality(InWindow(rlip[th], rlnow[th])) < RATE_LIMIT_MAX)

C13_Window ==
    \A ip \in Ips : \A i \in DOMAIN admitted[ip] :
        Cardinality(InWindow(ip, admitted[ip][i])) <= RATE_LIMIT_MAX

C14_NoLostNoExcess ==
    \A ip \in Ips :
        /\ \A i \in DOMAIN admitted[ip] :
              Cardinality(InWindow(ip, admitted[ip][i])) <= RATE_LIMIT_MAX
        /\ Len(Prune(_rate_store[ip], now)) = Cardinality(InWindow(ip, now))

(* C15: a rejected call records nothing: the stored window of every        *)
(* identity, its own included, is what it was, so rejected calls never     *)
(* postpone the next admission; an admitted call changes the stored window *)
(* of its own identity only.                                               *)
C15_Step ==
    \A th \in Threads :
        (rlpc[th] = "lock" /\ rlpc'[th] # "lock") =>
            /\ rlpc'[th] = "limited" => _rate_store' = _rate_store
            /\ \A ip \in Ips \ {rlip[th]} : _rate_store'[ip] = _rate_store[ip]

C15_RejectedNotRecorded == [][C15_Step]_vars

\* a call of tick 1 was rejected, and the same identity is admitted again
\* at tick 2, as soon as its window has room
C15_Witness ==
    \E th \in Threads :
        /\ rlpc[th] = "limited" /\ rlnow[th] = 1
        /\ Len(admitted[rlip[th]]) = RATE_LIMIT_MAX + 1
        /\ admitted[rlip[th]][RATE_LIMIT_MAX + 1] = 2

----------------------------------------------------------------------------
(* safe_path: caller-supplied paths against the sandbox root               *)
(*                                                                         *)
(* A path is a sequence of segments from the filesystem root, a segment is *)
(* a name, and a name is a sequence of chunks, so that a suffix can be     *)
(* appended to it.  A caller-supplied path is a record [abs, segs].        *)

Dot == <<".">>
DotDot == <<"..">>

\* symbolic links of the tree, with their resolved targets: ROOT/out
\* leaves the sandbox, ROOT/in stays inside it
Links ==
    (Append(ROOT, <<"out">>) :> << <<"etc">> >>) @@
    (Append(ROOT, <<"in">>) :> Append(ROOT, <<"sub">>))

\* urllib.parse.unquote on one chunk: %2e is a dot
UnquoteChunk(ch) == IF ch = "%2e%2e" THEN ".." ELSE ch

\* unquote(rel)
unquote(segs) ==
    [i \in DOMAIN segs |-> [j \in DOMAIN segs[i] |-> UnquoteChunk(segs[i][j])]]

Parent(path) == IF path = <<>> THEN <<>> ELSE SubSeq(path, 1, Len(path) - 1)

\* Path.resolve(): walk the segments from cur, dropping ".", climbing on
\* ".." (the parent of / is /) and following the links of the tree
RECURSIVE Walk(_, _)
Walk(cur, rest) ==
    IF rest = <<>> THEN cur
    ELSE LET s == Head(rest)
             n == Append(cur, s)
         IN  IF s = Dot THEN Walk(cur, Tail(rest))
             ELSE IF s = DotDot THEN Walk(Parent(cur), Tail(rest))
             ELSE IF n \in DOMAIN Links THEN Walk(Links[n], Tail(rest))
             ELSE Walk(n, Tail(rest))

\* p.resolve() for an absolute p, ROOT.joinpath(p).resolve() otherwise
Resolve(abs, segs) == Walk(IF abs THEN <<>> ELSE ROOT, segs)

\* the canonical form of the path the caller supplied
Canon(rel) == Resolve(rel.abs, rel.segs)

\* p.relative_to(ROOT) succeeds: segment by segment, p is ROOT or below it
IsUnder(path, base) ==
    Len(path) >= Len(base) /\ SubSeq(path, 1, Len(base)) = base

Accept(path) == [ok |-> TRUE, path |-> path, error |-> ""]
Reject(msg) == [ok |-> FALSE, path |-> <<>>, error |-> msg]

\* safe_path of aponi_launch.py
safe_path(rel) ==
    IF ~rel.abs /\ rel.segs = <<>> THEN Reject("empty path")
    ELSE LET p == Resolve(rel.abs, unquote(rel.segs))
         IN  IF IsUnder(p, ROOT) THEN Accept(p)
             ELSE Reject("Path outside allowed root")

\* names a caller may put into a path
InputSegs ==
    { Dot, DotDot, <<"a">>, <<"sub">>, <<"out">>, <<"in">>, <<"%2e%2e">>,
      <<"home">>, <<"ADAAD">>, <<"etc">> }

RECURSIVE SeqsUpTo(_, _)
SeqsUpTo(S, n) ==
    IF n = 0 THEN { <<>> }
    ELSE LET shorter == SeqsUpTo(S, n - 1)
         IN  shorter \cup { Append(x, e) : x \in shorter, e \in S }

PathInputs == [abs : BOOLEAN, segs : SeqsUpTo(InputSegs, MaxSegs)]

\* the one call of safe_path of a behaviour
SafePathCall(rel) ==
    /\ sp_ret.error = "not called"
    /\ sp_arg' = rel
    /\ sp_ret' = safe_path(rel)
    /\ UNCHANGED streamVars
    /\ UNCHANGED rateVars
    /\ UNCHANGED fsVars
    /\ UNCHANGED << returncode, respVars, postVars, otherVars >>

PathNext == \E rel \in PathInputs : SafePathCall(rel)

PathSpec == Init /\ [][PathNext]_vars

(* C16: for every non-empty caller-supplied path, safe_path returns a path *)
(* that is ROOT or below ROOT, or it rejects with 'Path outside allowed    *)
(* root'; and it rejects no path whose canonical form is ROOT or below it. *)
C16_SafePath ==
    (sp_arg.abs \/ sp_arg.segs # <<>>) =>
        /\ sp_ret.ok => IsUnder(sp_ret.path, ROOT)
        /\ ~sp_ret.ok =>
              /\ sp_ret.error = "Path outside allowed root"
              /\ ~IsUnder(Canon(sp_arg), ROOT)

----------------------------------------------------------------------------
(* /api/write, /api/create, /api/delete and /api/read on the tree          *)

\* what write request w sends as content: two chunks, written one by one
Content(w) == << <<w, 1>>, <<w, 2>> >>

\* the temporary file is the final path itself
TmpOfInPlace(path) == path

\* p.with_suffix(p.suffix + ".tmp"): the sibling whose name has ".tmp"
\* appended
TmpOf(path) == Append(Parent(path), path[Len(path)] \o <<".tmp">>)

\* path and every directory above it
SelfAndAbove(path) == { SubSeq(path, 1, k) : k \in 0..Len(path) }

\* f without the keys in S
Without(f, S) == [x \in DOMAIN f \ S |-> f[x]]

\* paths a file request may carry: ROOT itself, an existing file (relative
\* and absolute), a file in a directory still to create, a name ending in
\* .tmp, paths through the two links, a path outside
FileInputs ==
    { [abs |-> FALSE, segs |-> << Dot >>],
      [abs |-> FALSE, segs |-> << <<"a">> >>],
      [abs |-> TRUE, segs |-> Append(ROOT, <<"a">>)],
      [abs |-> FALSE, segs |-> << <<"new">>, <<"b">> >>],
      [abs |-> FALSE, segs |-> << <<"a", ".tmp">> >>],
      [abs |-> FALSE, segs |-> << <<"in">>, <<"c">> >>],
      [abs |-> FALSE, segs |-> << <<"out">>, <<"x">> >>],
      [abs |-> FALSE, segs |-> << DotDot, <<"x">> >>] }

\* p = safe_path(path_in): 400 with the message, or the resolved path
WriteResolve(w, rel) ==
    /\ wpc[w] = "idle"
    /\ LET r == safe_path(rel)
       IN  IF r.ok
           THEN wpc' = [wpc EXCEPT ![w] = "mkdir"] /\ wp' = [wp EXCEPT ![w] = r.path]
           ELSE wpc' = [wpc EXCEPT ![w] = "rejected"] /\ UNCHANGED wp
    /\ UNCHANGED << names, dirs, inode, wfd, wn, rd >>
    /\ UNCHANGED nonFsVars

\* p.parent.mkdir(parents=True, exist_ok=True); a regular file in the way
\* raises
WriteMkdir(w) ==
    /\ wpc[w] = "mkdir"
    /\ LET above == SelfAndAbove(Parent(wp[w]))
       IN  IF above \cap DOMAIN names # {}
           THEN wpc' = [wpc EXCEPT ![w] = "error"] /\ UNCHANGED dirs
           ELSE wpc' = [wpc EXCEPT ![w] = "open"] /\ dirs' = dirs \cup above
    /\ UNCHANGED << names, inode, wp, wfd, wn, rd >>
    /\ UNCHANGED nonFsVars

\* tmp.write_text opens tmp for writing: an existing file is truncated, a
\* missing one is created; a directory of that name raises
WriteOpenTmp(w) ==
    /\ wpc[w] = "open"
    /\ LET t == TmpOf(wp[w])
       IN  IF t \in dirs \/ Parent(t) \notin dirs
           THEN /\ wpc' = [wpc EXCEPT ![w] = "error"]
                /\ UNCHANGED << names, inode, wfd >>
           ELSE IF t \in DOMAIN names
           THEN /\ inode' = [inode EXCEPT ![names[t]] = <<>>]
                /\ wfd' = [wfd EXCEPT ![w] = names[t]]
                /\ wpc' = [wpc EXCEPT ![w] = "write"]
                /\ UNCHANGED names
           ELSE /\ inode' = Append(inode, <<>>)
                /\ names' = (t :> Len(inode) + 1) @@ names
                /\ wfd' = [wfd EXCEPT ![w] = Len(inode) + 1]
                /\ wpc' = [wpc EXCEPT ![w] = "write"]
    /\ wn' = [wn EXCEPT ![w] = 0]
    /\ UNCHANGED << dirs, wp, rd >>
    /\ UNCHANGED nonFsVars

\* one write(2) of tmp.write_text: the next chunk goes to the open file
WriteChunk(w) ==
    /\ wpc[w] = "write"
    /\ wn[w] < Len(Content(w))
    /\ inode' = [inode EXCEPT ![wfd[w]] = Append(@, Content(w)[wn[w] + 1])]
    /\ wn' = [wn EXCEPT ![w] = wn[w] + 1]
    /\ UNCHANGED << names, dirs, wpc, wp, wfd, rd >>
    /\ UNCHANGED nonFsVars

\* tmp.write_text raises (disk full, I/O error): 500 "write error"
WriteFail(w) ==
    /\ wpc[w] \in {"open", "write"}
    /\ wpc' = [wpc EXCEPT ![w] = "error"]
    /\ UNCHANGED << names, dirs, inode, wp, wfd, wn, rd >>
    /\ UNCHANGED nonFsVars

\* tmp.replace(p): rename(2); a missing tmp or a directory at p raises
WriteReplace(w) ==
    /\ wpc[w] = "write"
    /\ wn[w] = Len(Content(w))
    /\ LET t == TmpOf(wp[w])
       IN  IF t \notin DOMAIN names \/ wp[w] \in dirs
           THEN wpc' = [wpc EXCEPT ![w] = "error"] /\ UNCHANGED names
           ELSE /\ names' = (wp[w] :> names[t]) @@ Without(names, {t})
                /\ wpc' = [wpc EXCEPT ![w] = "ok"]
    /\ UNCHANGED << dirs, inode, wp, wfd, wn, rd >>
    /\ UNCHANGED nonFsVars

\* tmp.replace(p) raises for a reason of the system (permissions, I/O)
ReplaceFail(w) ==
    /\ wpc[w] = "write"
    /\ wn[w] = Len(Content(w))
    /\ wpc' = [wpc EXCEPT ![w] = "error"]
    /\ UNCHANGED << names, dirs, inode, wp, wfd, wn, rd >>
    /\ UNCHANGED nonFsVars

Write(w) ==
    \/ \E rel \in FileInputs : WriteResolve(w, rel)
    \/ WriteMkdir(w)
    \/ WriteOpenTmp(w)
    \/ WriteChunk(w)
    \/ WriteFail(w)
    \/ WriteReplace(w)
    \/ ReplaceFail(w)

\* /api/read: p.read_text() of an existing regular file
ReadFile(path) ==
    /\ path \in DOMAIN names
    /\ rd' = [path |-> path, content |-> inode[names[path]]]
    /\ UNCHANGED << names, dirs, inode, wpc, wp, wfd, wn >>
    /\ UNCHANGED nonFsVars

\* /api/read of the final path of write request w
ReadFinal(w) ==
    /\ wpc[w] \notin {"idle", "rejected"}
    /\ ReadFile(wp[w])

\* /api/create: p = safe_path(path_in), then the branch on type
CreateResolve(w, rel, typ) ==
    /\ wpc[w] = "idle"
    /\ LET r == safe_path(rel)
       IN  IF r.ok
           THEN wpc' = [wpc EXCEPT ![w] = typ] /\ wp' = [wp EXCEPT ![w] = r.path]
           ELSE wpc' = [wpc EXCEPT ![w] = "rejected"] /\ UNCHANGED wp
    /\ UNCHANGED << names, dirs, inode, wfd, wn, rd >>
    /\ UNCHANGED nonFsVars

\* p.mkdir(parents=True, exist_ok=True)
CreateDir(w) ==
    /\ wpc[w] = "create_dir"
    /\ LET above == SelfAndAbove(wp[w])
       IN  IF above \cap DOMAIN names # {}
           THEN wpc' = [wpc EXCEPT ![w] = "error"] /\ UNCHANGED dirs
           ELSE wpc' = [wpc EXCEPT ![w] = "ok"] /\ dirs' = dirs \cup above
    /\ UNCHANGED << names, inode, wp, wfd, wn, rd >>
    /\ UNCHANGED nonFsVars

\* p.parent.mkdir(parents=True, exist_ok=True); p.write_text("")
CreateFile(w) ==
    /\ wpc[w] = "create_file"
    /\ LET p == wp[w]
           above == SelfAndAbove(Parent(p))
       IN  IF above \cap DOMAIN names # {}
           THEN /\ wpc' = [wpc EXCEPT ![w] = "error"]
                /\ UNCHANGED << names, dirs, inode >>
           ELSE /\ dirs' = dirs \cup above
                /\ IF p \in dirs
                   THEN /\ wpc' = [wpc EXCEPT ![w] = "error"]
                        /\ UNCHANGED << names, inode >>
                   ELSE IF p \in DOMAIN names
                   THEN /\ inode' = [inode EXCEPT ![names[p]] = <<>>]
                        /\ wpc' = [wpc EXCEPT ![w] = "ok"]
                        /\ UNCHANGED names
                   ELSE /\ inode' = Append(inode, <<>>)
                        /\ names' = (p :> Len(inode) + 1) @@ names
                        /\ wpc' = [wpc EXCEPT ![w] = "ok"]
    /\ UNCHANGED << wp, wfd, wn, rd >>
    /\ UNCHANGED nonFsVars

\* /api/delete: p = safe_path(path)
DeleteResolve(w, rel) ==
    /\ wpc[w] = "idle"
    /\ LET r == safe_path(rel)
       IN  IF r.ok
           THEN wpc' = [wpc EXCEPT ![w] = "delete"] /\ wp' = [wp EXCEPT ![w] = r.path]
           ELSE wpc' = [wpc EXCEPT ![w] = "rejected"] /\ UNCHANGED wp
    /\ UNCHANGED << names, dirs, inode, wfd, wn, rd >>
    /\ UNCHANGED nonFsVars

\* shutil.rmtree(p) for a directory, p.unlink() otherwise
Delete(w) ==
    /\ wpc[w] = "delete"
    /\ LET p == wp[w]
       IN  IF p \in dirs
           THEN /\ dirs' = { x \in dirs : ~IsUnder(x, p) }
                /\ names' = Without(names, { x \in DOMAIN names : IsUnder(x, p) })
                /\ wpc' = [wpc EXCEPT ![w] = "ok"]
           ELSE IF p \in DOMAIN names
           THEN /\ names' = Without(names, {p})
                /\ wpc' = [wpc EXCEPT ![w] = "ok"]
                /\ UNCHANGED dirs
           ELSE /\ wpc' = [wpc EXCEPT ![w] = "error"]
                /\ UNCHANGED << names, dirs >>
    /\ UNCHANGED << inode, wp, wfd, wn, rd >>
    /\ UNCHANGED nonFsVars

\* concurrent write, create and delete requests with any path of FileInputs
FsNext ==
    \/ \E w \in Writers : Write(w)
    \/ \E w \in Writers : \E rel \in FileInputs :
          \E typ \in {"create_dir", "create_file"} : CreateResolve(w, rel, typ)
    \/ \E w \in Writers : CreateDir(w)
    \/ \E w \in Writers : CreateFile(w)
    \/ \E w \in Writers : \E rel \in FileInputs : DeleteResolve(w, rel)
    \/ \E w \in Writers : Delete(w)

FsSpec == Init /\ [][FsNext]_vars

\* concurrent write requests and reads of their final paths
WriteNext ==
    \/ \E w \in Writers : Write(w)
    \/ \E w \in Writers : ReadFinal(w)

WriteSpec == Init /\ [][WriteNext]_vars

\* a single write request and reads of any file of the tree
WriteOneNext ==
    \/ Write(1)
    \/ \E path \in DOMAIN names : ReadFile(path)

WriteOneSpec == Init /\ [][WriteOneNext]_vars

(* C17: whatever a file request creates, writes, replaces or removes,      *)
(* temporary files and created parent directories included, is ROOT or     *)
(* below ROOT, for every path including '.'; and a request whose path      *)
(* resolves outside ROOT is rejected and changes nothing.                  *)
C17_Inside ==
    /\ \A path \in DOMAIN names : IsUnder(path, ROOT)
    /\ \A d \in dirs : IsUnder(d, ROOT) \/ d \in InitDirs
    /\ \A d \in InitDirs : IsUnder(d, ROOT) \/ d \in dirs

C17_Step ==
    \A w \in Writers :
        /\ (wpc[w] = "idle" /\ wpc'[w] = "rejected") =>
              UNCHANGED << names, dirs, inode >>
        /\ wpc[w] = "rejected" => wpc'[w] = "rejected"

C17_StaysInRoot == []C17_Inside /\ [][C17_Step]_vars

(* C18: under any interleaving of concurrent write requests and reads of   *)
(* their final paths, a read returns the complete previous content or the  *)
(* complete content of one write request, never a truncated, partial or    *)
(* mixed one.  Reads of a path that is the temporary file of a request in  *)
(* progress are left aside.                                                *)
C18_ReadsComplete ==
    ( /\ rd.path # <<>>
      /\ \A w \in Writers :
            wpc[w] \in {"idle", "rejected"} \/ rd.path # TmpOf(wp[w]) ) =>
        rd.content \in {OldContent} \cup { Content(w) : w \in Writers }

\* what path holds: <<content>> for a regular file, <<>> for none
At(path) == IF path \in DOMAIN names THEN << inode[names[path]] >> ELSE <<>>

InitAt(path) == IF path \in DOMAIN InitNames THEN << OldContent >> ELSE <<>>

(* C19: for a single write request, until it has succeeded - and so when   *)
(* writing the temporary file or the replace failed and the error was      *)
(* reported - the final path holds what it held before the request; when   *)
(* it has succeeded the final path holds exactly the new content and the   *)
(* temporary file of the write is gone.                                    *)
C19_SingleWrite ==
    /\ wpc[1] \in {"mkdir", "open", "write", "error"} => At(wp[1]) = InitAt(wp[1])
    /\ wpc[1] = "ok" =>
          /\ At(wp[1]) = << Content(1) >>
          /\ TmpOf(wp[1]) \notin DOMAIN names

\* the write of ROOT/a failed after the first chunk reached the temporary
\* file, and a read of ROOT/a returned the old content
C19_Witness ==
    /\ wpc[1] = "error"
    /\ wp[1] = Append(ROOT, <<"a">>)
    /\ wn[1] = 1
    /\ rd.path = wp[1]
    /\ rd.content = OldContent

----------------------------------------------------------------------------
(* Streaming executions of children that write nothing and exit with any   *)
(* code                                                                    *)

ExitCodes == {0, 1}

\* two such executions side by side
ExitReqs == {1, 2}

ExitNext ==
    \/ \E r \in ExitReqs : RunStreamGate(r)
    \/ \E r \in ExitReqs : RunStreamSpawnTask(r)
    \/ \E r \in ExitReqs : Popen(r, <<>>)
    \/ \E r \in ExitReqs : QuietProducer(r)
    \/ \E r \in ExitReqs : \E code \in ExitCodes : ChildExitCode(r, code)

ExitSpec == Init /\ [][ExitNext]_vars

\* the execution of r ran a child to its exit and left the read loop
\* without an exception
Completed(r) ==
    /\ pc[r] \in AfterTerminalPcs
    /\ child[r] = "exited"
    /\ ~Raised(r)

(* C20: a streaming execution whose child writes nothing and exits with    *)
(* code 0 puts exactly one event on the task's queue, the terminal event,  *)
(* and this event carries the child's exit code: the queue of a child      *)
(* that exited with another code is a different one.  finished_at is unset *)
(* in every state before the terminal event was enqueued.                  *)
C20_ExitEvent ==
    \A r \in ExitReqs :
        /\ (Completed(r) /\ returncode[r] = 0) =>
              /\ Len(q[r]) = 1
              /\ \A o \in ExitReqs :
                    (Completed(o) /\ returncode[o] # 0) => q[o] # q[r]
        /\ (r \in DOMAIN TASKS /\ q[r] = <<>>) => TASKS[r].finished_at = None

----------------------------------------------------------------------------
(* The answer of /api/run_stream and a failing producer *)

\* json_response({"ok": True, "task": tid}): the handler thread answers
\* after it started the producer thread, which runs on its own meanwhile
RunStreamRespond(r) ==
    /\ pc[r] \in ProducerPcs \cup {"done"}
    /\ resp[r] = None
    /\ resp' = [resp EXCEPT ![r] = r]
    /\ UNCHANGED body
    /\ UNCHANGED streamVars
    /\ UNCHANGED << rateVars, pathVars, fsVars, returncode, postVars, otherVars >>

FailReqs == {1, 2}

\* two streaming requests, each from the gate to the end of its producer
\* thread, with every failure of Popen and of readline, and their answers
FailNext ==
    \/ \E r \in FailReqs : RunStreamGate(r)
    \/ \E r \in FailReqs : RunStreamSpawnTask(r)
    \/ \E r \in FailReqs : RunStreamRespond(r)
    \/ \E r \in FailReqs : \E sc \in QuietScripts : Popen(r, sc)
    \/ \E r \in FailReqs : Producer(r)
    \/ \E r \in FailReqs : Child(r)

FailSpec == Init /\ [][FailNext]_vars

\* the last two puts of r are the internal-error event and the marker
EndsWithExcDone(r) ==
    LET n == Len(emitted[r])
    IN  /\ n >= 2
        /\ emitted[r][n - 1].kind = "exc"
        /\ emitted[r][n].kind = "done"
        /\ n <= Len(q[r])
        /\ SubSeq(q[r], Len(q[r]) - 1, Len(q[r]))
               = << <<"[EXC] ", "e">>, TASK_DONE >>

\* the producer of r is in its except or finally clause after a failure
InFailure(r) ==
    \/ pc[r] \in {"exc_put", "exc_done"}
    \/ pc[r] \in {"finally_mark", "finally_release"} /\ Raised(r)

\* a failure of r is handled on r's own queue and entry, in order
C21_Handled ==
    \A r \in FailReqs :
        /\ pc[r] \in {"exc_put", "exc_done"} => r \in DOMAIN TASKS /\ r \in Holders
        /\ pc[r] = "exc_done" =>
               /\ Raised(r)
               /\ q[r] # <<>> /\ q[r][Len(q[r])] = <<"[EXC] ", "e">>
        /\ (Raised(r) /\ pc[r] \in AfterTerminalPcs) => EndsWithExcDone(r)
        /\ (Raised(r) /\ pc[r] \in {"finally_release", "done"}) =>
               r \in DOMAIN TASKS /\ Truthy(TASKS[r].finished_at)
        /\ (Raised(r) /\ pc[r] = "done") =>
               r \notin Holders /\ _active_streams = Cardinality(Holders)

\* the steps of a failing producer touch no other request
C21_Step ==
    \A r \in FailReqs :
        (InFailure(r) /\ pc'[r] # pc[r]) =>
            \A o \in Reqs \ {r} :
                /\ q'[o] = q[o] /\ emitted'[o] = emitted[o]
                /\ pc'[o] = pc[o] /\ child'[o] = child[o]
                /\ pipe'[o] = pipe[o]
                /\ (o \in DOMAIN TASKS) = (o \in DOMAIN TASKS')
                /\ o \in DOMAIN TASKS => TASKS'[o] = TASKS[o]

\* the answer to a request that got a task is its task id
C21_Answer ==
    \A r \in FailReqs : resp[r] # None => resp[r] = r /\ r \in Attempted

\* when the failure shows, the answer has already been sent
C21_AnswerFirst ==
    \A r \in FailReqs : (InFailure(r) \/ Raised(r)) => resp[r] = r

(* C21: a failure of Popen or of a readline, after the slot was taken and  *)
(* the task created, is put on the task's own queue as "[EXC] ..." followed*)
(* by the marker, the task gets finished_at and the slot is given back;    *)
(* the request has already been answered with the task id by then; no other*)
(* request's queue, entry, child or position changes.                      *)
C21_FailureOnOwnQueueAfterAnswer ==
    []C21_Handled /\ [][C21_Step]_vars /\ []C21_AnswerFirst

(* C21, amended: the same, with the answer carrying the task id whether it *)
(* is sent before or after the failure reaches the queue.                  *)
C21_FailureOnOwnQueue ==
    []C21_Handled /\ [][C21_Step]_vars /\ []C21_Answer

\* request 1 failed in a readline after its child wrote, request 2 failed
\* in Popen; both are over, answered, marked and the gate is empty
C21_Witness ==
    /\ pc[1] = "done" /\ Raised(1) /\ child[1] # "none"
    /\ pc[2] = "done" /\ Raised(2) /\ child[2] = "none"
    /\ resp[1] = 1 /\ resp[2] = 2
    /\ _active_streams = 0
    /\ Truthy(TASKS[1].finished_at) /\ Truthy(TASKS[2].finished_at)

----------------------------------------------------------------------------
(* /api/run_stream: validation of the request *)

\* "not pth": None and the empty string are false
Falsy(pth) == ~pth.given \/ (~pth.abs /\ pth.segs = <<>>)

\* pth = data.get("path") or parse_qs(parsed.query).get("path", [None])[0]
PathField(b) == IF Falsy(b.data) THEN b.query ELSE b.data

\* p.exists() on a resolved path
Exists(path) == path \in DOMAIN names \/ path \in dirs

\* mutant: the existence of the file is not looked at
ValidateNoExists(b) ==
    LET pth == PathField(b)
        sp == safe_path([abs |-> pth.abs, segs |-> pth.segs])
    IN  IF Falsy(pth) THEN [status |-> 400, error |-> "missing path"]
        ELSE IF ~sp.ok THEN [status |-> 400, error |-> sp.error]
        ELSE [status |-> 200, error |-> ""]

\* the three tests ahead of the gate: 400, 400, 404, or go on
Validate(b) ==
    LET pth == PathField(b)
        sp == safe_path([abs |-> pth.abs, segs |-> pth.segs])
    IN  IF Falsy(pth) THEN [status |-> 400, error |-> "missing path"]
        ELSE IF ~sp.ok THEN [status |-> 400, error |-> sp.error]
        ELSE IF ~Exists(sp.path) THEN [status |-> 404, error |-> "not found"]
        ELSE [status |-> 200, error |-> ""]

\* a request that does not pass the tests is answered and returns
RunStreamInvalid(r, b) ==
    /\ pc[r] = "idle"
    /\ Validate(b).status # 200
    /\ body' = [body EXCEPT ![r] = b]
    /\ resp' = [resp EXCEPT ![r] = Validate(b).status]
    /\ pc' = [pc EXCEPT ![r] = "rejected"]
    /\ UNCHANGED << now, _active_streams, TASKS, q, out, err, child, script,
                    pos, pipe, emitted >>
    /\ UNCHANGED consVars /\ UNCHANGED reaperVars
    /\ UNCHANGED << rateVars, pathVars, fsVars, returncode, postVars, otherVars >>

\* a request that passes the tests goes to the gate; 429 is its answer there
RunStreamValid(r, b) ==
    /\ pc[r] = "idle"
    /\ Validate(b).status = 200
    /\ body' = [body EXCEPT ![r] = b]
    /\ IF GateAdmits(_active_streams)
       THEN /\ _active_streams' = _active_streams + 1
            /\ pc' = [pc EXCEPT ![r] = "spawn_task"]
            /\ UNCHANGED resp
       ELSE /\ pc' = [pc EXCEPT ![r] = "denied"]
            /\ resp' = [resp EXCEPT ![r] = 429]
            /\ UNCHANGED _active_streams
    /\ UNCHANGED << now, TASKS, q, out, err, child, script, pos, pipe, emitted >>
    /\ UNCHANGED consVars /\ UNCHANGED reaperVars
    /\ UNCHANGED << rateVars, pathVars, fsVars, returncode, postVars, otherVars >>

\* path fields of the requests: absent, empty, a file of the tree, a name
\* that is not there, paths that leave ROOT by "..", by a link and by an
\* absolute path, and an encoded ".."
RelA == [given |-> TRUE, abs |-> FALSE, segs |-> << <<"a">> >>]

StreamPaths ==
    { NoPath, EmptyPath, RelA,
      [given |-> TRUE, abs |-> FALSE, segs |-> << <<"nofile">> >>],
      [given |-> TRUE, abs |-> FALSE, segs |-> << DotDot, <<"x">> >>],
      [given |-> TRUE, abs |-> FALSE, segs |-> << <<"out">>, <<"x">> >>],
      [given |-> TRUE, abs |-> TRUE, segs |-> << <<"etc">> >>],
      [given |-> TRUE, abs |-> FALSE, segs |-> << <<"%2e%2e">>, <<"ADAAD">>, <<"a">> >>] }

\* the path in the JSON body, or else in the query string
StreamBodies ==
    { [data |-> p, query |-> NoPath] : p \in StreamPaths } \cup
    { [data |-> p, query |-> RelA] : p \in {NoPath, EmptyPath} }

ValReqs == {1, 2, 3}

\* three requests with any of the bodies, silent children
ValidateNext ==
    \/ \E r \in ValReqs : \E b \in StreamBodies : RunStreamInvalid(r, b)
    \/ \E r \in ValReqs : \E b \in StreamBodies : RunStreamValid(r, b)
    \/ \E r \in ValReqs : RunStreamSpawnTask(r)
    \/ \E r \in ValReqs : RunStreamReleaseFull(r)
    \/ \E r \in ValReqs : Popen(r, <<>>)
    \/ \E r \in ValReqs : QuietProducer(r)
    \/ \E r \in ValReqs : ChildExit(r)

ValidateSpec == Init /\ [][ValidateNext]_vars

\* the file a path field names, percent-decoded as safe_path reads it
Named(pth) == Resolve(pth.abs, unquote(pth.segs))

\* what the claim calls failing validation: no path, an empty path, a path
\* that names something outside ROOT, a path at which there is nothing
FailsValidation(b) ==
    LET pth == PathField(b)
    IN  \/ ~pth.given
        \/ ~pth.abs /\ pth.segs = <<>>
        \/ ~IsUnder(Named(pth), ROOT)
        \/ ~Exists(Named(pth))

\* a request that failed validation was answered 400 or 404 and holds
\* nothing
C22_Rejected ==
    \A r \in ValReqs :
        (pc[r] # "idle" /\ FailsValidation(body[r])) =>
            /\ pc[r] = "rejected"
            /\ resp[r] \in {400, 404}
            /\ r \notin DOMAIN TASKS
            /\ r \notin Holders
            /\ child[r] = "none"
            /\ q[r] = <<>>

\* the step that rejects leaves gate, registry and children as they were
C22_Step ==
    \A r \in ValReqs :
        (pc[r] = "idle" /\ pc'[r] = "rejected") =>
            /\ _active_streams' = _active_streams
            /\ TASKS' = TASKS
            /\ child' = child
            /\ q' = q

(* C22: a /api/run_stream request with no path, an empty path, a path      *)
(* outside ROOT or a path at which nothing exists is answered 400 or 404   *)
(* by the handler itself before anything is acquired: the gate counter, the*)
(* registry and the children are as they were before the request.          *)
C22_RejectedBeforeAcquire == []C22_Rejected /\ [][C22_Step]_vars

\* while another execution holds a slot, a task and a running child, one
\* request was rejected for a path outside ROOT and another for a file that
\* is not there
C22_Witness ==
    \E a, b, c \in ValReqs :
        /\ pc[a] \in ProducerPcs /\ child[a] = "running" /\ a \in DOMAIN TASKS
        /\ _active_streams = 1
        /\ pc[b] = "rejected" /\ resp[b] = 400
        /\ body[b].data.given /\ ~IsUnder(Named(body[b].data), ROOT)
        /\ pc[c] = "rejected" /\ resp[c] = 404

----------------------------------------------------------------------------
(* POST /api/rename, /api/copy and /api/run *)

\* the subtree at path ps, seen from pd
Moved(x, ps, pd) == pd \o SubSeq(x, Len(ps) + 1, Len(x))

Below(ps) == { x \in DOMAIN names : IsUnder(x, ps) }
DirsBelow(ps) == { x \in dirs : IsUnder(x, ps) }

\* /api/rename: safe_path of both, pd.parent.mkdir, ps.replace(pd)
Rename(w, src, dst) ==
    /\ wpc[w] = "idle"
    /\ LET s == safe_path(src)
           d == safe_path(dst)
           ps == s.path
           pd == d.path
           above == SelfAndAbove(Parent(pd))
       IN  IF ~s.ok \/ ~d.ok
           THEN /\ wpc' = [wpc EXCEPT ![w] = "rejected"]
                /\ UNCHANGED << names, dirs, wp >>
           ELSE /\ wp' = [wp EXCEPT ![w] = pd]
                /\ IF above \cap DOMAIN names # {}
                   THEN /\ wpc' = [wpc EXCEPT ![w] = "error"]
                        /\ UNCHANGED << names, dirs >>
                   ELSE IF ps = pd /\ (ps \in DOMAIN names \/ ps \in dirs)
                   THEN /\ wpc' = [wpc EXCEPT ![w] = "ok"]
                        /\ UNCHANGED << names, dirs >>
                   ELSE IF ps \in DOMAIN names /\ pd \notin dirs
                   THEN /\ names' = (pd :> names[ps]) @@ Without(names, {ps})
                        /\ dirs' = dirs \cup above
                        /\ wpc' = [wpc EXCEPT ![w] = "ok"]
                   ELSE IF /\ ps \in dirs /\ ps \notin above
                           /\ pd \notin DOMAIN names
                           /\ Below(pd) = {} /\ DirsBelow(pd) \subseteq {pd}
                   THEN /\ names' =
                              [x \in (DOMAIN names \ Below(ps)) \cup
                                     { Moved(y, ps, pd) : y \in Below(ps) } |->
                                  IF IsUnder(x, pd)
                                  THEN names[ps \o SubSeq(x, Len(pd) + 1, Len(x))]
                                  ELSE names[x]]
                        /\ dirs' = ((dirs \cup above) \ DirsBelow(ps)) \cup
                                       { Moved(y, ps, pd) : y \in DirsBelow(ps) }
                        /\ wpc' = [wpc EXCEPT ![w] = "ok"]
                   ELSE /\ dirs' = dirs \cup above
                        /\ wpc' = [wpc EXCEPT ![w] = "error"]
                        /\ UNCHANGED names
    /\ UNCHANGED << inode, wfd, wn, rd >>
    /\ UNCHANGED nonFsVars

\* /api/copy of a regular file: safe_path of both, pd.parent.mkdir,
\* shutil.copy2(ps, pd); a directory as pd takes the copy under ps's name
Copy(w, src, dst) ==
    /\ wpc[w] = "idle"
    /\ LET s == safe_path(src)
           d == safe_path(dst)
           ps == s.path
           pd == d.path
           above == SelfAndAbove(Parent(pd))
           to == IF pd \in dirs THEN Append(pd, ps[Len(ps)]) ELSE pd
       IN  IF ~s.ok \/ ~d.ok
           THEN /\ wpc' = [wpc EXCEPT ![w] = "rejected"]
                /\ UNCHANGED << names, dirs, inode, wp >>
           ELSE /\ wp' = [wp EXCEPT ![w] = pd]
                /\ IF above \cap DOMAIN names # {}
                   THEN /\ wpc' = [wpc EXCEPT ![w] = "error"]
                        /\ UNCHANGED << names, dirs, inode >>
                   ELSE /\ dirs' = dirs \cup above
                        /\ IF ps \notin DOMAIN names \/ to \in dirs \/ to = ps
                           THEN /\ wpc' = [wpc EXCEPT ![w] = "error"]
                                /\ UNCHANGED << names, inode >>
                           ELSE IF to \in DOMAIN names
                           THEN /\ inode' = [inode EXCEPT ![names[to]] =
                                                inode[names[ps]]]
                                /\ wpc' = [wpc EXCEPT ![w] = "ok"]
                                /\ UNCHANGED names
                           ELSE /\ inode' = Append(inode, inode[names[ps]])
                                /\ names' = (to :> Len(inode) + 1) @@ names
                                /\ wpc' = [wpc EXCEPT ![w] = "ok"]
    /\ UNCHANGED << wfd, wn, rd >>
    /\ UNCHANGED nonFsVars

\* the tests of /api/run: the path comes from the body only
ValidateRun(pth) ==
    LET sp == safe_path([abs |-> pth.abs, segs |-> pth.segs])
    IN  IF Falsy(pth) THEN [status |-> 400, error |-> "missing path"]
        ELSE IF ~sp.ok THEN [status |-> 400, error |-> sp.error]
        ELSE IF ~Exists(sp.path) THEN [status |-> 404, error |-> "not found"]
        ELSE [status |-> 200, error |-> ""]

RunVars(p, r) == run' = [run EXCEPT ![p] = r]

RunFrame ==
    /\ UNCHANGED streamVars
    /\ UNCHANGED << rateVars, pathVars, fsVars, returncode, respVars, post, otherVars >>

\* 400 or 404 of /api/run
RunInvalid(p, pth) ==
    /\ run[p].pc = "idle"
    /\ ValidateRun(pth).status # 200
    /\ RunVars(p, [run[p] EXCEPT !.pc = "rejected"])
    /\ RunFrame

\* subprocess.run starts the child and waits for it, RUN_TIMEOUT at most
RunStart(p, pth) ==
    /\ run[p].pc = "idle"
    /\ ValidateRun(pth).status = 200
    /\ RunVars(p, [pc |-> "wait", child |-> "running",
                   deadline |-> now + RUN_TIMEOUT])
    /\ RunFrame

\* subprocess.run raises before there is a child: 500 "run exception"
RunSpawnFail(p, pth) ==
    /\ run[p].pc = "idle"
    /\ ValidateRun(pth).status = 200
    /\ RunVars(p, [run[p] EXCEPT !.pc = "run exception"])
    /\ RunFrame

\* the child of /api/run exits by itself
RunChildExit(p) ==
    /\ run[p].child = "running"
    /\ RunVars(p, [run[p] EXCEPT !.child = "exited"])
    /\ RunFrame

\* communicate() returns, its time checks passed: answer 200 with exit code
\* and output
RunReturn(p) ==
    /\ run[p].pc = "wait"
    /\ run[p].child = "exited"
    /\ now <= run[p].deadline
    /\ RunVars(p, [run[p] EXCEPT !.pc = "ok"])
    /\ RunFrame

\* mutant: on TimeoutExpired the child is left alone
RunKillNot(p) ==
    /\ run[p].pc = "wait"
    /\ now > run[p].deadline
    /\ RunVars(p, [run[p] EXCEPT !.pc = "expired"])
    /\ RunFrame

\* communicate() finds its end time passed (_time() > endtime):
\* subprocess.run kills the child, waits for it and raises TimeoutExpired
RunKill(p) ==
    /\ run[p].pc = "wait"
    /\ now > run[p].deadline
    /\ RunVars(p, [run[p] EXCEPT !.pc = "expired",
                      !.child = IF @ = "running" THEN "killed" ELSE @])
    /\ RunFrame

\* except subprocess.TimeoutExpired: answer 500 "timeout"
RunAnswerTimeout(p) ==
    /\ run[p].pc = "expired"
    /\ RunVars(p, [run[p] EXCEPT !.pc = "timeout"])
    /\ RunFrame

----------------------------------------------------------------------------
(* do_POST: rate limit, body, require_token, then the endpoint *)

\* a key with a byte outside ASCII, as the header decoding (latin-1) gives it
NonAsciiKey == "wr\\xe9ng"

IsAscii(k) == k # NonAsciiKey

\* X-API-Key or Api-Key or the api_key of the query string: the first that
\* is not empty
KeyOf(keys) ==
    IF keys.x_api_key # "" THEN keys.x_api_key
    ELSE IF keys.api_key # "" THEN keys.api_key
    ELSE keys.query

\* require_token: open when no token is configured; else 401 for no key or
\* a key that differs; secrets.compare_digest raises TypeError on a str
\* that is not ASCII
require_token(token, keys) ==
    IF token = "" THEN "ok"
    ELSE LET key == KeyOf(keys)
         IN  IF key = "" THEN "401"
             ELSE IF ~IsAscii(key) \/ ~IsAscii(token) THEN "TypeError"
             ELSE IF key = token THEN "ok"
             ELSE "401"

\* the endpoints behind require_token
Protected == { "write", "create", "rename", "copy", "delete", "run", "run_stream" }

\* key fields of the requests: none, a wrong key, the token in a header and
\* in the query string, a key that is not ASCII
KeyInputs ==
    { NoKeys,
      [NoKeys EXCEPT !.x_api_key = "wrong"],
      [NoKeys EXCEPT !.x_api_key = API_TOKEN],
      [NoKeys EXCEPT !.query = API_TOKEN],
      [NoKeys EXCEPT !.x_api_key = NonAsciiKey] }

\* do_POST up to the endpoint: rate_allowed(ip), json.loads(body),
\* require_token; what it answers, or "dispatch" when the endpoint is next.
\* An exception of require_token leaves the handler with no answer.
DoPost(p, ip, ep, keys, json) ==
    /\ post[p].ep = "none"
    /\ LET arr == Prune(_rate_store[ip], now)
           limited == Len(arr) >= RATE_LIMIT_MAX
           auth == require_token(API_TOKEN, keys)
           outcome == IF limited THEN "429"
                      ELSE IF ~json THEN "400"
                      ELSE IF auth = "ok" THEN "dispatch"
                      ELSE auth
       IN  /\ post' = [post EXCEPT ![p] = [ep |-> ep, keys |-> keys,
                                            json |-> json, status |-> outcome]]
           /\ IF limited
              THEN UNCHANGED << _rate_store, admitted >>
              ELSE /\ _rate_store' = [_rate_store EXCEPT ![ip] = Append(arr, now)]
                   /\ admitted' = [admitted EXCEPT ![ip] = Append(@, now)]
    /\ ncalls' = ncalls + 1
    /\ UNCHANGED << rlpc, rlip, rlnow >>
    /\ UNCHANGED streamVars
    /\ UNCHANGED << pathVars, fsVars, returncode, respVars, run, otherVars >>

\* thread p got through require_token for endpoint ep
Dispatched(p, ep) == post[p].ep = ep /\ post[p].status = "dispatch"

\* paths of the file requests: a file of the tree, a file in a directory
\* still to create, a path outside ROOT
AuthPaths ==
    { [abs |-> FALSE, segs |-> << <<"a">> >>],
      [abs |-> FALSE, segs |-> << <<"new">>, <<"b">> >>],
      [abs |-> FALSE, segs |-> << DotDot, <<"x">> >>] }

\* path fields of the run requests: none, a file of the tree, a name that
\* is not there
AuthRunPaths ==
    { NoPath, RelA, [given |-> TRUE, abs |-> FALSE, segs |-> << <<"nofile">> >>] }

\* the endpoint of a request that got through
Endpoint(p) ==
    \/ /\ Dispatched(p, "write")
       /\ \/ \E rel \in AuthPaths : WriteResolve(p, rel)
          \/ WriteMkdir(p) \/ WriteOpenTmp(p) \/ WriteChunk(p)
          \/ WriteFail(p) \/ WriteReplace(p) \/ ReplaceFail(p)
    \/ /\ Dispatched(p, "create")
       /\ \/ \E rel \in AuthPaths : \E typ \in {"create_dir", "create_file"} :
                CreateResolve(p, rel, typ)
          \/ CreateDir(p)
          \/ CreateFile(p)
    \/ /\ Dispatched(p, "delete")
       /\ ((\E rel \in AuthPaths : DeleteResolve(p, rel)) \/ Delete(p))
    \/ Dispatched(p, "rename") /\ \E src, dst \in AuthPaths : Rename(p, src, dst)
    \/ Dispatched(p, "copy") /\ \E src, dst \in AuthPaths : Copy(p, src, dst)
    \/ /\ Dispatched(p, "run")
       /\ \/ \E pth \in AuthRunPaths : RunInvalid(p, pth)
          \/ \E pth \in AuthRunPaths : RunStart(p, pth)
          \/ \E pth \in AuthRunPaths : RunSpawnFail(p, pth)
          \/ RunChildExit(p)
          \/ RunReturn(p)
    \/ /\ Dispatched(p, "run_stream")
       /\ \/ \E pth \in AuthRunPaths :
                RunStreamInvalid(p, [data |-> pth, query |-> NoPath])
          \/ \E pth \in AuthRunPaths :
                RunStreamValid(p, [data |-> pth, query |-> NoPath])
          \/ RunStreamSpawnTask(p)
          \/ Popen(p, <<>>)
          \/ QuietProducer(p)
          \/ ChildExit(p)

\* two POSTs to the protected endpoints with any of the key fields, from one
\* address, among other requests of that address
AuthNext ==
    \/ \E p \in Posts : \E ep \in Protected : \E keys \in KeyInputs :
          \E json \in BOOLEAN : DoPost(p, "10.0.0.1", ep, keys, json)
    \/ \E p \in Posts : Endpoint(p)
    \/ RateReadClock(1, "10.0.0.1")
    \/ RateLocked(1)

AuthSpec == Init /\ [][AuthNext]_vars

\* the request carries no key, or none of its keys is the token
NoValidKey(keys) ==
    /\ keys.x_api_key # API_TOKEN
    /\ keys.api_key # API_TOKEN
    /\ keys.query # API_TOKEN

\* the protected POSTs that came without the token
Unauthorized ==
    { p \in Posts : post[p].ep \in Protected /\ NoValidKey(post[p].keys) }

\* a POST without the token never reaches its endpoint: thread p has
\* touched no file, spawned no process, taken no slot and made no task
C23_NoEffect ==
    \A p \in Unauthorized :
        /\ post[p].status # "dispatch"
        /\ wpc[p] = "idle" /\ wp[p] = <<>>
        /\ run[p] = NoRun
        /\ pc[p] = "idle" /\ child[p] = "none" /\ p \notin DOMAIN TASKS

\* the step that answers it changes no file, process, counter or registry
C23_Step ==
    \A p \in Posts :
        (post[p].ep = "none" /\ p \in Unauthorized') =>
            UNCHANGED << names, dirs, inode, child, run, _active_streams, TASKS >>

(* C23: with a token configured, a POST to write, create, rename, copy,    *)
(* delete, run or run_stream that carries no key or a wrong key is answered*)
(* 401, and before any effect: no file is created, changed or removed, no  *)
(* process is spawned, the gate counter and the registry are unchanged.    *)
C23_Unauthorized401 ==
    /\ [](\A p \in Unauthorized : post[p].status = "401")
    /\ []C23_NoEffect
    /\ [][C23_Step]_vars

\* what holds of C23: no effect, whatever the answer is
C23_UnauthorizedNoEffect == []C23_NoEffect /\ [][C23_Step]_vars

----------------------------------------------------------------------------
(* A child that stays alive *)

\* every thread that can run does run and the child writes whenever its
\* write does not block, but nothing makes the child exit
LongRunFairness ==
    \A r \in StreamReqs :
        /\ WF_vars(RunStreamGate(r))
        /\ WF_vars(RunStreamSpawnTask(r))
        /\ WF_vars(\E sc \in StreamScripts : Popen(r, sc))
        /\ WF_vars(Producer(r))
        /\ WF_vars(ChildWrite(r))

LongRunSpec == Init /\ [][ProducerNext]_vars /\ LongRunFairness

(* C24: while the child of a streaming execution runs, the k-th line it    *)
(* has written to one stream is eventually on the queue, whatever the other*)
(* stream does - unless the child has exited meanwhile or a readline       *)
(* raised; so a child that writes to stdout and stays silent on stderr, or *)
(* the reverse, has each line enqueued while it runs.                      *)
C24_LineEnqueuedWhileRunning ==
    \A r \in StreamReqs : \A s \in Streams : \A k \in 1..MaxWrites :
        (child[r] = "running" /\ Len(Written(r, s)) >= k)
            ~> \/ Len(StreamEvents(r, s)) >= k
               \/ child[r] = "exited"
               \/ Raised(r)

----------------------------------------------------------------------------
(* C25: a streaming execution that the gate denies (counter at the         *)
(* maximum) has a task whose queue got an internal-error event and then the*)
(* terminal event, and no process was spawned for it, so that a consumer   *)
(* attached to the task learns of the denial from the stream.              *)
C25_DenialOnStream ==
    \A r \in Reqs :
        pc[r] = "denied" =>
            /\ child[r] = "none"
            /\ r \in DOMAIN TASKS
            /\ Len(q[r]) = 2
            /\ q[r][1][1] = "[EXC] "
            /\ q[r][2] = TASK_DONE

----------------------------------------------------------------------------
\* the slot of r has been given back by its producer thread
TokenReleased(r) == pc[r] = "done"

\* the terminal event of r has been put on its queue
TerminalEnqueued(r) == DoneCount(r) >= 1

\* r's entry, if it is still there, has finished_at set
MarkedIfRegistered(T, r) == r \in DOMAIN T => Truthy(T[r].finished_at)

\* the producer of r has called mark_task_done
ProducerMarked(r) == pc[r] \in {"finally_release", "done"}

C26_State ==
    \A r \in StreamReqs :
        /\ TokenReleased(r) => TerminalEnqueued(r) /\ MarkedIfRegistered(TASKS, r)
        /\ ProducerMarked(r) => TerminalEnqueued(r) /\ MarkedIfRegistered(TASKS, r)
        /\ (pc[r] \in ProducerPcs /\ ~TokenReleased(r)) => _active_streams >= 1

C26_Step ==
    \A r \in StreamReqs :
        \* the terminal event is put before the producer marks, slot held
        /\ (~TerminalEnqueued(r) /\ TerminalEnqueued(r)') =>
               /\ ~ProducerMarked(r) /\ ~ProducerMarked(r)'
               /\ _active_streams' = _active_streams /\ _active_streams >= 1
        \* the producer marks after the terminal event, before the release
        /\ (~ProducerMarked(r) /\ ProducerMarked(r)') =>
               /\ TerminalEnqueued(r)
               /\ TASKS' = MarkTaskDone(TASKS, r, now)
               /\ ~TokenReleased(r)'
               /\ _active_streams' = _active_streams /\ _active_streams >= 1
        \* the release comes after both, and is the only step that lowers
        \* the counter
        /\ _active_streams' < _active_streams =>
               /\ ~TokenReleased(r) /\ TokenReleased(r)'
               /\ ProducerMarked(r)
               /\ TerminalEnqueued(r) /\ MarkedIfRegistered(TASKS, r)
               /\ _active_streams' = _active_streams - 1

(* C26: a streaming execution ends in this order: the terminal event is put*)
(* on the queue, then the task gets finished_at, then the slot is given    *)
(* back.  In every reachable state an execution whose slot was given back  *)
(* has its terminal event enqueued and its task, if still registered, has  *)
(* finished_at set.                                                        *)
C26_TerminalOrder == []C26_State /\ [][C26_Step]_vars

\* the slot is back, the task was marked by the producer and is still
\* registered at a later time; and the other order of events happened too:
\* a consumer has received the terminal event
C26_Witness ==
    /\ TokenReleased(1) /\ _active_streams = 0
    /\ 1 \in DOMAIN TASKS /\ Truthy(TASKS[1].finished_at)
    /\ now > TASKS[1].finished_at
    /\ \E c \in AttachCons : cpc[c] = "ended" /\ ctid[c] = 1

----------------------------------------------------------------------------
(* Consumers that lose their client *)

DisconnectCons == {1, 2}

\* one execution whose child writes at most one line, and two consumers
\* whose clients may go away at any write
DisconnectNext ==
    \/ \E r \in StreamReqs : RunStreamGate(r)
    \/ \E r \in StreamReqs : RunStreamSpawnTask(r)
    \/ \E r \in StreamReqs : \E sc \in QuietScripts : Popen(r, sc)
    \/ \E r \in StreamReqs : Producer(r)
    \/ \E r \in StreamReqs : Child(r)
    \/ \E c \in DisconnectCons : Consumer(c, StreamReqs)

\* the handler, the producer thread and the child run when they can; no
\* consumer has to
DisconnectFairness ==
    \A r \in StreamReqs :
        /\ WF_vars(RunStreamGate(r))
        /\ WF_vars(RunStreamSpawnTask(r))
        /\ WF_vars(\E sc \in QuietScripts : Popen(r, sc))
        /\ WF_vars(Producer(r))
        /\ WF_vars(Child(r))

DisconnectSpec == Init /\ [][DisconnectNext]_vars /\ DisconnectFairness

\* the step in which consumer c finds its connection closed
Disconnects(c) == cpc[c] = "get" /\ cpc'[c] = "closed"

C27_Step ==
    \A c \in DisconnectCons :
        Disconnects(c) =>
            /\ UNCHANGED << pc, out, err, emitted >>
            /\ UNCHANGED << child, script, pos, pipe >>
            /\ UNCHANGED _active_streams
            /\ DOMAIN TASKS' = DOMAIN TASKS
            /\ \A o \in DisconnectCons \ {c} :
                  cpc'[o] = cpc[o] /\ received'[o] = received[o]

C27_Live ==
    \A r \in StreamReqs : \A c \in DisconnectCons :
        (cpc[c] = "closed" /\ ctid[c] = r /\ child[r] = "exited")
            ~> (pc[r] = "done" /\ TerminalEnqueued(r) /\ _active_streams = 0)

(* C27: a broken pipe on a consumer's write ends that consumer only: the   *)
(* step leaves the producer thread, the child, the gate counter, the       *)
(* membership of the registry and the other consumers as they were, and    *)
(* once the child has exited the execution still reaches its end (marker   *)
(* enqueued, slot given back).                                             *)
C27_DisconnectEndsOnlyConsumer == [][C27_Step]_vars /\ C27_Live

\* consumer 1 received a line and then lost its client while the child was
\* running; consumer 2 is still attached; the execution has ended since and
\* its marker waits in the queue
C27_Witness ==
    /\ cpc[1] = "closed" /\ ctid[1] = 1 /\ received[1] # <<>>
    /\ cpc[2] = "get" /\ ctid[2] = 1
    /\ pc[1] = "done" /\ child[1] = "exited"
    /\ 1 \in DOMAIN TASKS /\ _active_streams = 0
    /\ q[1] # <<>> /\ q[1][Len(q[1])] = TASK_DONE

----------------------------------------------------------------------------
\* the step in which q.get of consumer c times out and it sends ": ping"
TimesOut(c) == pings'[c] = pings[c] + 1

\* the timeout takes nothing from any queue, marks nothing, ends nothing
C28_TimeoutStep ==
    \A c \in DisconnectCons :
        TimesOut(c) =>
            /\ cpc[c] = "get" /\ cpc'[c] = "get"
            /\ UNCHANGED << q, TASKS, received, ctid >>

\* an event that leaves the queue of the task of c while c, having timed
\* out before, waits with its client connected, goes to c.  The queue was
\* empty at the timeout, so such an event was enqueued after it.
C28_DeliveryStep ==
    \A c \in DisconnectCons :
        (/\ cpc[c] = "get" /\ pings[c] >= 1
         /\ q[ctid[c]] # <<>> /\ q'[ctid[c]] = Tail(q[ctid[c]])
         /\ cpc'[c] # "closed") =>
            received'[c] = Append(received[c], Head(q[ctid[c]]))

(* C28: a consumer whose q.get times out with no event available sends a   *)
(* keep-alive and waits on: the timeout takes nothing from the queue, does *)
(* not mark the task, does not end the stream, and every event enqueued    *)
(* after it is delivered to that consumer, in order, after any number of   *)
(* timeouts.                                                               *)
C28_KeepAliveKeepsDelivery == [][C28_TimeoutStep /\ C28_DeliveryStep]_vars

\* what holds of C28: the timeout itself changes nothing but the keep-alive
C28_TimeoutChangesNothing == [][C28_TimeoutStep]_vars

----------------------------------------------------------------------------
(* /api/run beside a streaming execution *)

\* two blocking runs, one streaming execution with a silent child, the clock
RunNext ==
    \/ \E p \in Posts : \E pth \in AuthRunPaths : RunInvalid(p, pth)
    \/ \E p \in Posts : \E pth \in AuthRunPaths : RunStart(p, pth)
    \/ \E p \in Posts : \E pth \in AuthRunPaths : RunSpawnFail(p, pth)
    \/ \E p \in Posts : RunChildExit(p)
    \/ \E p \in Posts : RunReturn(p)
    \/ \E p \in Posts : RunKill(p)
    \/ \E p \in Posts : RunAnswerTimeout(p)
    \/ \E r \in StreamReqs : RunStreamGate(r)
    \/ \E r \in StreamReqs : RunStreamSpawnTask(r)
    \/ \E r \in StreamReqs : Popen(r, <<>>)
    \/ \E r \in StreamReqs : QuietProducer(r)
    \/ \E r \in StreamReqs : ChildExit(r)
    \/ Tick

\* a handler thread that can go on does go on; children exit or not
RunFairness ==
    \A p \in Posts :
        /\ WF_vars(RunReturn(p))
        /\ WF_vars(RunKill(p))
        /\ WF_vars(RunAnswerTimeout(p))

RunSpec == Init /\ [][RunNext]_vars /\ RunFairness

\* /api/run of thread p has answered
RunAnswered(p) == run[p].pc \in {"rejected", "run exception", "ok", "timeout"}

C29_State ==
    \A p \in Posts :
        /\ run[p].pc = "timeout" => run[p].child \in {"killed", "exited"}
        /\ run[p].pc = "ok" => run[p].child = "exited"
        /\ run[p].child = "killed" => run[p].pc \in {"expired", "timeout"}
        /\ RunAnswered(p) => run[p].child # "running"

C29_Step ==
    \A p \in Posts :
        run'[p] # run[p] =>
            /\ TASKS' = TASKS
            /\ _active_streams' = _active_streams
            /\ UNCHANGED << q, pc, child >>

C29_Live ==
    \A p \in Posts :
        (run[p].pc = "wait" /\ run[p].child = "running" /\ now > run[p].deadline)
            ~> (run[p].pc = "timeout" /\ run[p].child \in {"killed", "exited"})

(* C29: a blocking /api/run whose child is still running when RUN_TIMEOUT  *)
(* has passed ends with the child terminated before the answer and with    *)
(* the answer "timeout"; and no step of /api/run, whether it ends in       *)
(* success, timeout, rejection or a failure to spawn, changes the registry *)
(* or the gate counter.                                                    *)
C29_TimeoutKillsChild == []C29_State /\ [][C29_Step]_vars /\ C29_Live

\* one run timed out and its child was killed, the other ended by itself,
\* while a streaming execution holds a slot and a task
C29_Witness ==
    /\ run[1].pc = "timeout" /\ run[1].child = "killed"
    /\ run[2].pc = "ok"
    /\ _active_streams = 1 /\ 1 \in DOMAIN TASKS /\ child[1] = "running"

----------------------------------------------------------------------------
(* A child that never exits *)

HungCons == {1}

\* one streaming execution whose child writes what it writes and is never
\* made to exit (it may stay alive with its pipes open for as long as it
\* likes); a consumer, the reaper and the clock
HungNext ==
    \/ \E r \in StreamReqs : RunStreamGate(r)
    \/ \E r \in StreamReqs : RunStreamSpawnTask(r)
    \/ \E r \in StreamReqs : \E sc \in StreamScripts : Popen(r, sc)
    \/ \E r \in StreamReqs : Producer(r)
    \/ \E r \in StreamReqs : Child(r)
    \/ \E c \in HungCons : Consumer(c, StreamReqs)
    \/ Reaper
    \/ Tick

HungSpec == Init /\ [][HungNext]_vars

\* the producer of a child that is alive has not marked the task
C30_NotMarked ==
    \A r \in StreamReqs : child[r] = "running" => ~ProducerMarked(r)

\* the task of a child that is alive is registered
C30_NotReaped ==
    \A r \in StreamReqs : child[r] = "running" => r \in DOMAIN TASKS

\* the slot of a child that is alive is held
C30_NotReleased ==
    \A r \in StreamReqs :
        child[r] = "running" => ~TokenReleased(r) /\ _active_streams >= 1

(* C30: a streaming execution whose child never exits and never closes its *)
(* pipes keeps its task and its slot for ever: the producer never sets     *)
(* finished_at, the reaper never removes the task, the slot is never given *)
(* back; in every state after the spawn the task is registered and the     *)
(* counter is at least 1.                                                  *)
C30_HungChildLeaks == C30_NotMarked /\ C30_NotReaped /\ C30_NotReleased

----------------------------------------------------------------------------
(* aponi_server.py: the rate_limited decorator of the Flask server *)

FLASK_RATE_MAX == 2         \* max_requests=40 of rate_limited, scaled
FLASK_RUN_MAX == 1          \* max_requests=10 of api_run's decorator, scaled
FLASK_RATE_WINDOW == 1      \* window=60, in ticks

\* the endpoints that carry @rate_limited
FlaskEndpoints == {"write", "create", "rename", "copy", "delete", "run"}

\* the arguments of the decorator of endpoint ep
max_requests(ep) == IF ep = "run" THEN FLASK_RUN_MAX ELSE FLASK_RATE_MAX
window(ep) == FLASK_RATE_WINDOW

\* [t for t in timestamps if t > now - window]
FlaskPrune(timestamps, n, w) == SelectSeq(timestamps, LAMBDA t : t > n - w)

\* ip = request.remote_addr; now = time.time()
FlaskReadClock(th, ip, ep) ==
    /\ flpc[th] \in {"idle", "ok", "limited"}
    /\ flcalls < MaxCalls
    /\ flcalls' = flcalls + 1
    /\ flreq' = [flreq EXCEPT ![th] =
                    [ip |-> ip, ep |-> ep, now |-> now, timestamps |-> <<>>]]
    /\ flpc' = [flpc EXCEPT ![th] = "get"]
    /\ UNCHANGED << flask_rate_store, fladmitted >>
    /\ UNCHANGED nonFlaskVars

\* timestamps = _rate_store.get(ip, []), pruned into a new list; 429 when it
\* is full, else now is appended to the thread's own list
FlaskGet(th) ==
    /\ flpc[th] = "get"
    /\ LET rq == flreq[th]
           ts == FlaskPrune(flask_rate_store[rq.ip], rq.now, window(rq.ep))
       IN  IF Len(ts) >= max_requests(rq.ep)
           THEN /\ flpc' = [flpc EXCEPT ![th] = "limited"]
                /\ UNCHANGED flreq
           ELSE /\ flreq' = [flreq EXCEPT ![th].timestamps = Append(ts, rq.now)]
                /\ flpc' = [flpc EXCEPT ![th] = "store"]
    /\ UNCHANGED << flask_rate_store, fladmitted, flcalls >>
    /\ UNCHANGED nonFlaskVars

\* _rate_store[ip] = timestamps; return fn(...): the request is admitted
FlaskStore(th) ==
    /\ flpc[th] = "store"
    /\ LET rq == flreq[th]
       IN  /\ flask_rate_store' =
                [flask_rate_store EXCEPT ![rq.ip] = rq.timestamps]
           /\ fladmitted' =
                [fladmitted EXCEPT ![rq.ip] = Append(@, [ep |-> rq.ep, t |-> rq.now])]
    /\ flpc' = [flpc EXCEPT ![th] = "ok"]
    /\ UNCHANGED << flreq, flcalls >>
    /\ UNCHANGED nonFlaskVars

\* the endpoints and the identity the requests are drawn from
FlaskEps == {"write", "run"}
FlaskIps == {"10.0.0.1"}

\* one request at a time
FlaskSeqNext ==
    \/ \E ip \in FlaskIps : \E ep \in FlaskEps : FlaskReadClock(1, ip, ep)
    \/ FlaskGet(1)
    \/ FlaskStore(1)
    \/ Tick

FlaskSeqSpec == Init /\ [][FlaskSeqNext]_vars

\* threaded=True: one thread per request, NumThreads of them at a time
FlaskNext ==
    \/ \E th \in Threads : \E ip \in FlaskIps : \E ep \in FlaskEps :
          FlaskReadClock(th, ip, ep)
    \/ \E th \in Threads : FlaskGet(th)
    \/ \E th \in Threads : FlaskStore(th)
    \/ Tick

FlaskSpec == Init /\ [][FlaskNext]_vars

\* the admitted requests of ip to endpoint ep stamped inside the window
\* that ends at n
FlaskInWindow(ip, ep, n) ==
    { i \in DOMAIN fladmitted[ip] :
        /\ fladmitted[ip][i].ep = ep
        /\ fladmitted[ip][i].t > n - window(ep)
        /\ fladmitted[ip][i].t <= n }

\* how many of the timestamps of arr equal t
CountOf(arr, t) == Cardinality({ i \in DOMAIN arr : arr[i] = t })

\* the timestamps of the admitted requests of ip, whatever the endpoint
AdmittedStamps(ip) == [i \in DOMAIN fladmitted[ip] |-> fladmitted[ip][i].t]

\* no window holds more admitted requests of one identity to one endpoint
\* than the endpoint's max_requests
C31_Bounded ==
    \A ip \in FlaskIps : \A ep \in FlaskEps : \A n \in 1..MaxTime :
        Cardinality(FlaskInWindow(ip, ep, n)) <= max_requests(ep)

\* every admitted request whose timestamp is inside the current window is
\* in the stored list
C31_NoneLost ==
    \A ip \in FlaskIps : \A t \in 1..MaxTime :
        t > now - FLASK_RATE_WINDOW =>
            CountOf(flask_rate_store[ip], t) >= CountOf(AdmittedStamps(ip), t)

(* C31: under concurrent requests of one identity the number admitted      *)
(* within one window never exceeds max_requests, and no admitted request's *)
(* timestamp is lost from the stored window.                               *)
C31_WindowSynchronized == C31_Bounded /\ C31_NoneLost

----------------------------------------------------------------------------
(* The boundary of the window *)

\* the timestamps t of arr with t >= n - w
NotOlder(arr, n, w) == SelectSeq(arr, LAMBDA t : t >= n - w)

\* a check of rate_allowed that returns: it refuses iff RATE_LIMIT_MAX of
\* the recorded timestamps are not older than now - window, and on
\* admission keeps exactly those and its own
C32_LaunchStep ==
    \A th \in Threads :
        (rlpc[th] = "lock" /\ rlpc'[th] # "lock") =>
            LET ip == rlip[th]
                counted == NotOlder(_rate_store[ip], rlnow[th], RATE_LIMIT_WINDOW)
            IN  /\ rlpc'[th] = "limited" <=> Len(counted) >= RATE_LIMIT_MAX
                /\ rlpc'[th] = "ok" =>
                      _rate_store'[ip] = Append(counted, rlnow[th])

(* C32: on a rate check at time now the timestamps counted against the     *)
(* limit are exactly the identity's recorded timestamps t with             *)
(* t >= now - window, so a request recorded exactly window earlier counts. *)
C32_BoundaryCounts == [][C32_LaunchStep]_vars

\* the same for the decorator of aponi_server.py
C32_FlaskStep ==
    \A th \in Threads :
        (flpc[th] = "get" /\ flpc'[th] # "get") =>
            LET rq == flreq[th]
                counted == NotOlder(flask_rate_store[rq.ip], rq.now, window(rq.ep))
            IN  flpc'[th] = "limited" <=> Len(counted) >= max_requests(rq.ep)

C32_FlaskBoundaryCounts == [][C32_FlaskStep]_vars

----------------------------------------------------------------------------
(* One budget per endpoint *)

\* the endpoints that share the budget of ep: /api/run has its own, the five
\* file endpoints have the default one
BudgetOf(ep) == IF ep = "run" THEN {"run"} ELSE FlaskEndpoints \ {"run"}

\* the requests of ip to the endpoints of ep's budget admitted inside the
\* window that ends at n
AdmittedToBudget(ip, ep, n) ==
    { i \in DOMAIN fladmitted[ip] :
        /\ fladmitted[ip][i].ep \in BudgetOf(ep)
        /\ fladmitted[ip][i].t > n - window(ep)
        /\ fladmitted[ip][i].t <= n }

\* a request that leaves the limiter is refused iff its own budget is used up
C33_Step ==
    \A th \in Threads :
        (flpc[th] = "get" /\ flpc'[th] # "get") =>
            LET rq == flreq[th]
            IN  flpc'[th] = "limited" <=>
                  Cardinality(AdmittedToBudget(rq.ip, rq.ep, rq.now))
                      >= max_requests(rq.ep)

(* C33: each endpoint enforces its own (max, window) budget: a request to  *)
(* /api/run is admitted iff fewer than its max_requests requests to        *)
(* /api/run of that identity were admitted in the last window, whatever    *)
(* the identity's requests to the file endpoints, and vice versa.          *)
C33_BudgetPerEndpoint == [][C33_Step]_vars

----------------------------------------------------------------------------
(* explorer.py: safe_resolve *)

\* Path(BASE_PATH).resolve(): in the model's tree the directory ROOT
BASE_PATH == ROOT

\* str(path): every name behind a "/", the root alone is "/"
RECURSIVE Str(_)
Str(path) ==
    IF path = <<>> THEN <<"/">>
    ELSE IF Len(path) = 1 THEN <<"/">> \o path[1]
    ELSE Str(Parent(path)) \o <<"/">> \o path[Len(path)]

\* a.startswith(b) on the characters of two strings
startswith(a, b) == Len(b) <= Len(a) /\ SubSeq(a, 1, Len(b)) = b

\* (base / user_path).resolve(): an absolute user_path replaces base
ResolveFrom(base, rel) == Walk(IF rel.abs THEN <<>> ELSE base, rel.segs)

\* safe_resolve of explorer.py
safe_resolve(rel) ==
    LET base == BASE_PATH
        candidate == ResolveFrom(base, rel)
    IN  IF ~startswith(Str(candidate), Str(base))
        THEN Reject("Path outside of base")
        ELSE Accept(candidate)

\* names a caller may put into a path
ResolveSegs ==
    { Dot, DotDot, <<"a">>, <<"sub">>, <<"out">>, <<"in">>, <<"home">>,
      <<"ADAAD">>, <<"ADAAD", "-evil">>, <<"etc">> }

ResolveInputs == [abs : BOOLEAN, segs : SeqsUpTo(ResolveSegs, MaxSegs)]

\* the one call of safe_resolve of a behaviour
SafeResolveCall(rel) ==
    /\ sr_ret.error = "not called"
    /\ sr_arg' = rel
    /\ sr_ret' = safe_resolve(rel)
    /\ UNCHANGED << streamVars, rateVars, pathVars, fsVars, returncode,
                    respVars, postVars, flaskVars, wcontent, lockVars >>

ResolveNext == \E rel \in ResolveInputs : SafeResolveCall(rel)

ResolveSpec == Init /\ [][ResolveNext]_vars

\* a call was made
ResolveCalled == sr_ret.error # "not called"

\* what is accepted is the canonical path, and it is the base or below it
C34_AcceptedInside ==
    (ResolveCalled /\ sr_ret.ok) =>
        /\ sr_ret.path = ResolveFrom(BASE_PATH, sr_arg)
        /\ IsUnder(sr_ret.path, BASE_PATH)

\* what is the base or below it is accepted
C34_InsideAccepted ==
    (ResolveCalled /\ IsUnder(ResolveFrom(BASE_PATH, sr_arg), BASE_PATH)) =>
        sr_ret.ok

(* C34: safe_resolve accepts a path iff its canonical form is the base     *)
(* directory or a descendant of it, segment by segment: a canonical path   *)
(* that only shares the base's string prefix, or an absolute path          *)
(* elsewhere, is rejected.                                                 *)
C34_SegmentCheck == C34_AcceptedInside /\ C34_InsideAccepted

----------------------------------------------------------------------------
(* /api/write: the size guard *)

MAX_WRITE_BYTES == 2        \* APONI_MAX_WRITE_BYTES, scaled

\* every character counted as one byte
Utf8BytesOne(ch) == 1

\* the bytes of one character in UTF-8: "e'" stands for a two-byte character
Utf8Bytes(ch) == IF ch = "e'" THEN 2 ELSE 1

\* len(content.encode("utf-8"))
RECURSIVE Utf8Len(_)
Utf8Len(chars) ==
    IF chars = <<>> THEN 0 ELSE Utf8Bytes(Head(chars)) + Utf8Len(Tail(chars))

\* the head of the /api/write branch, for a request with a path: 413 for a
\* content above the limit, an exception for a content that is no string
\* (it has no encode), else safe_path as in WriteResolve
WriteRequest(w, rel, content) ==
    /\ wpc[w] = "idle"
    /\ wcontent' = [wcontent EXCEPT ![w] = content]
    /\ IF ~content.str
       THEN wpc' = [wpc EXCEPT ![w] = "exception"] /\ UNCHANGED wp
       ELSE IF Utf8Len(content.chars) > MAX_WRITE_BYTES
       THEN wpc' = [wpc EXCEPT ![w] = "413"] /\ UNCHANGED wp
       ELSE LET r == safe_path(rel)
            IN  IF r.ok
                THEN /\ wpc' = [wpc EXCEPT ![w] = "mkdir"]
                     /\ wp' = [wp EXCEPT ![w] = r.path]
                ELSE wpc' = [wpc EXCEPT ![w] = "rejected"] /\ UNCHANGED wp
    /\ UNCHANGED << names, dirs, inode, wfd, wn, rd >>
    /\ UNCHANGED << streamVars, rateVars, pathVars, returncode, respVars,
                    postVars, flaskVars, resolveVars, lockVars >>

\* contents a request may carry: below the limit, exactly at it in one-byte
\* and in two-byte characters, above it in bytes but not in characters,
\* above it in both, and a JSON number
SizeContents ==
    { [str |-> TRUE, chars |-> <<"a">>],
      [str |-> TRUE, chars |-> <<"a", "a">>],
      [str |-> TRUE, chars |-> <<"e'">>],
      [str |-> TRUE, chars |-> <<"a", "e'">>],
      [str |-> TRUE, chars |-> <<"a", "a", "a">>],
      [str |-> FALSE, chars |-> <<>>] }

\* paths of the requests: a file in a directory still to create, the
\* existing file, a path outside
SizePaths ==
    { [abs |-> FALSE, segs |-> << <<"new">>, <<"b">> >>],
      [abs |-> FALSE, segs |-> << <<"a">> >>],
      [abs |-> FALSE, segs |-> << DotDot, <<"x">> >>] }

SizeWriters == {1, 2}

SizeNext ==
    \/ \E w \in SizeWriters : \E rel \in SizePaths : \E c \in SizeContents :
          WriteRequest(w, rel, c)
    \/ \E w \in SizeWriters : WriteMkdir(w)
    \/ \E w \in SizeWriters : WriteOpenTmp(w)
    \/ \E w \in SizeWriters : WriteChunk(w)
    \/ \E w \in SizeWriters : WriteFail(w)
    \/ \E w \in SizeWriters : WriteReplace(w)
    \/ \E w \in SizeWriters : ReplaceFail(w)

SizeSpec == Init /\ [][SizeNext]_vars

\* the size of a string in bytes: one for each character and one more for
\* each two-byte character
ByteCount(chars) ==
    Len(chars) + Cardinality({ i \in DOMAIN chars : chars[i] = "e'" })

\* the content of request w is a string of more than MAX_WRITE_BYTES bytes
TooLarge(w) ==
    wcontent[w].str /\ ByteCount(wcontent[w].chars) > MAX_WRITE_BYTES

\* a request rejected for its size has resolved no path and opened no file
C35_State ==
    \A w \in SizeWriters :
        /\ wpc[w] = "413" => TooLarge(w) /\ wp[w] = <<>> /\ wfd[w] = 0
        /\ TooLarge(w) => wpc[w] = "413"

\* the step that takes a request in: above the limit it answers 413 and
\* leaves the tree as it is, at the limit or below it does not answer 413;
\* and a rejected request takes no further step
C35_Step ==
    \A w \in SizeWriters :
        /\ (wpc[w] = "idle" /\ wpc'[w] # "idle") =>
              LET c == wcontent'[w]
              IN  /\ (c.str /\ ByteCount(c.chars) > MAX_WRITE_BYTES) =>
                        /\ wpc'[w] = "413"
                        /\ UNCHANGED << names, dirs, inode >>
                  /\ (c.str /\ ByteCount(c.chars) <= MAX_WRITE_BYTES) =>
                        wpc'[w] \in {"mkdir", "rejected"}
        /\ wpc[w] = "413" =>
              /\ wpc'[w] = "413"
              /\ wcontent'[w] = wcontent[w] /\ wp'[w] = wp[w] /\ wfd'[w] = wfd[w]

(* C35: a write whose content is above MAX_WRITE_BYTES, counted in UTF-8   *)
(* bytes, is rejected up front with no effect on the tree - no directory   *)
(* created, no temporary file, the final path untouched - and a content of *)
(* exactly MAX_WRITE_BYTES bytes is accepted.                              *)
C35_SizeGuard == []C35_State /\ [][C35_Step]_vars

\* one request, above the limit in bytes only, is rejected; the other,
\* exactly at the limit, has replaced its file
C35_Witness ==
    /\ wpc[1] = "413" /\ wcontent[1].chars = <<"a", "e'">>
    /\ wpc[2] = "ok" /\ ByteCount(wcontent[2].chars) = MAX_WRITE_BYTES
    /\ wp[2] \in DOMAIN names

----------------------------------------------------------------------------
(* The locks of aponi_launch.py                                            *)
(*                                                                         *)
(* The same handlers, producers, consumer and reaper at the grain of their *)
(* "with" blocks: taking a lock is a step of its own, the block under the  *)
(* lock and the release are the next.  What the child writes and what the  *)
(* queue holds is left open here: a blocking call returns when it returns, *)
(* and the clock stands still.                                             *)

\* the task a consumer asks for
LockTask == 1

\* the task of a thread: a producer's is its handler's, the consumer's is
\* the one it asked for
TidOf(th) == IF th[1] = "consumer" THEN LockTask ELSE th[2]

\* what no step of this part touches
nonLockVars == << q, reqVars, consVars, rpc, wake, rateVars, pathVars, fsVars,
                 returncode, respVars, postVars, flaskVars, resolveVars,
                 wcontent >>

\* with l: (entering) - the thread waits until l is free
Acquire(th, l, from, to) ==
    /\ lpc[th] = from
    /\ lock[l] = Free
    /\ lock' = [lock EXCEPT ![l] = th]
    /\ lpc' = [lpc EXCEPT ![th] = to]
    /\ UNCHANGED << now, _active_streams, TASKS, rnow >>
    /\ UNCHANGED nonLockVars

\* with l: (leaving)
Release(th, l, to) ==
    /\ lock[l] = th
    /\ lock' = [lock EXCEPT ![l] = Free]
    /\ lpc' = [lpc EXCEPT ![th] = to]

\* rate_allowed, first call of do_GET and do_POST
LkRateAcquire(th) ==
    /\ th[1] \in {"handler", "consumer"}
    /\ Acquire(th, "_rate_lock", "idle", "rate_locked")

\* the block under _rate_lock; False is answered 429
LkRate(th, allowed) ==
    /\ lpc[th] = "rate_locked"
    /\ Release(th, "_rate_lock",
               IF ~allowed THEN "done"
               ELSE IF th[1] = "handler" THEN "gate" ELSE "lookup")
    /\ UNCHANGED << now, _active_streams, TASKS, rnow >>
    /\ UNCHANGED nonLockVars

\* with _active_streams_lock: of the admission
LkGateAcquire(th) ==
    /\ th[1] = "handler"
    /\ Acquire(th, "_active_streams_lock", "gate", "gate_locked")

\* the block of the admission: the increment, or json_response(429) and
\* return, both inside the block
LkGate(th) ==
    /\ lpc[th] = "gate_locked"
    /\ IF GateAdmits(_active_streams)
       THEN /\ _active_streams' = _active_streams + 1
            /\ Release(th, "_active_streams_lock", "spawn")
       ELSE /\ lpc' = [lpc EXCEPT ![th] = "deny_write"]
            /\ UNCHANGED << _active_streams, lock >>
    /\ UNCHANGED << now, TASKS, rnow >>
    /\ UNCHANGED nonLockVars

\* the 429 is written; return leaves the block
LkDenyWritten(th) ==
    /\ lpc[th] = "deny_write"
    /\ Release(th, "_active_streams_lock", "done")
    /\ UNCHANGED << now, _active_streams, TASKS, rnow >>
    /\ UNCHANGED nonLockVars

\* spawn_task: with TASKS_LOCK:
LkSpawnAcquire(th) ==
    /\ th[1] = "handler"
    /\ Acquire(th, "TASKS_LOCK", "spawn", "spawn_locked")

\* the block of spawn_task
LkSpawn(th) ==
    /\ lpc[th] = "spawn_locked"
    /\ IF RegistryFull(TASKS)
       THEN /\ Release(th, "TASKS_LOCK", "full")
            /\ UNCHANGED TASKS
       ELSE /\ TASKS' = SpawnTask(TASKS, TidOf(th))
            /\ Release(th, "TASKS_LOCK", "start")
    /\ UNCHANGED << now, _active_streams, rnow >>
    /\ UNCHANGED nonLockVars

\* if not tid: with _active_streams_lock:
LkFullAcquire(th) ==
    /\ th[1] = "handler"
    /\ Acquire(th, "_active_streams_lock", "full", "full_locked")

\* the decrement; 503 after the block
LkFull(th) ==
    /\ lpc[th] = "full_locked"
    /\ _active_streams' = _active_streams - 1
    /\ Release(th, "_active_streams_lock", "done")
    /\ UNCHANGED << now, TASKS, rnow >>
    /\ UNCHANGED nonLockVars

\* threading.Thread(target=run_proc_to_queue).start(), then the answer
LkStart(th) ==
    /\ th[1] = "handler"
    /\ lpc[th] = "start"
    /\ lpc' = [lpc EXCEPT ![th] = "done", ![<<"producer", th[2]>>] = "popen"]
    /\ UNCHANGED << now, _active_streams, TASKS, rnow, lock >>
    /\ UNCHANGED nonLockVars

\* subprocess.Popen returns or raises
LkPopen(th, raised) ==
    /\ lpc[th] = "popen"
    /\ lpc' = [lpc EXCEPT ![th] = IF raised THEN "finally" ELSE "read"]
    /\ UNCHANGED << now, _active_streams, TASKS, rnow, lock >>
    /\ UNCHANGED nonLockVars

\* the read loop ends, by break or by an exception; its puts do not block
LkRead(th) ==
    /\ lpc[th] = "read"
    /\ lpc' = [lpc EXCEPT ![th] = "finally"]
    /\ UNCHANGED << now, _active_streams, TASKS, rnow, lock >>
    /\ UNCHANGED nonLockVars

\* mark_task_done: with TASKS_LOCK: - in the producer's finally and in the
\* consumer that got the marker
LkMarkAcquire(th) ==
    \/ th[1] = "producer" /\ Acquire(th, "TASKS_LOCK", "finally", "mark_locked")
    \/ th[1] = "consumer" /\ Acquire(th, "TASKS_LOCK", "cmark", "mark_locked")

\* the block of mark_task_done, left with the lock kept
LkMarkKeepsLock(th) ==
    /\ lpc[th] = "mark_locked"
    /\ TASKS' = MarkTaskDone(TASKS, TidOf(th), now)
    /\ lpc' = [lpc EXCEPT ![th] = IF th[1] = "producer" THEN "release" ELSE "done"]
    /\ UNCHANGED << now, _active_streams, rnow, lock >>
    /\ UNCHANGED nonLockVars

\* the block of mark_task_done
LkMark(th) ==
    /\ lpc[th] = "mark_locked"
    /\ TASKS' = MarkTaskDone(TASKS, TidOf(th), now)
    /\ Release(th, "TASKS_LOCK", IF th[1] = "producer" THEN "release" ELSE "done")
    /\ UNCHANGED << now, _active_streams, rnow >>
    /\ UNCHANGED nonLockVars

\* finally: with _active_streams_lock:
LkReleaseAcquire(th) ==
    /\ th[1] = "producer"
    /\ Acquire(th, "_active_streams_lock", "release", "release_locked")

\* the decrement of the producer
LkRelease(th) ==
    /\ lpc[th] = "release_locked"
    /\ _active_streams' = _active_streams - 1
    /\ Release(th, "_active_streams_lock", "done")
    /\ UNCHANGED << now, TASKS, rnow >>
    /\ UNCHANGED nonLockVars

\* /api/stream: with TASKS_LOCK:
LkLookupAcquire(th) ==
    /\ th[1] = "consumer"
    /\ Acquire(th, "TASKS_LOCK", "lookup", "lookup_locked")

\* meta = TASKS.get(tid); 404 after the block when there is none
LkLookup(th) ==
    /\ lpc[th] = "lookup_locked"
    /\ Release(th, "TASKS_LOCK", IF TidOf(th) \in DOMAIN TASKS THEN "get" ELSE "done")
    /\ UNCHANGED << now, _active_streams, TASKS, rnow >>
    /\ UNCHANGED nonLockVars

\* q.get(timeout=30) of the loop gives the marker, or a write to the client
\* raises BrokenPipeError
LkGet(th, marker) ==
    /\ lpc[th] = "get"
    /\ lpc' = [lpc EXCEPT ![th] = IF marker THEN "cmark" ELSE "done"]
    /\ UNCHANGED << now, _active_streams, TASKS, rnow, lock >>
    /\ UNCHANGED nonLockVars

\* cleanup_task_ttl_loop: now = time.time()
LkReaperClock(th) ==
    /\ th[1] = "reaper"
    /\ lpc[th] = "idle"
    /\ rnow' = now
    /\ lpc' = [lpc EXCEPT ![th] = "sweep"]
    /\ UNCHANGED << now, _active_streams, TASKS, lock >>
    /\ UNCHANGED nonLockVars

\* with TASKS_LOCK: of the reaper
LkReaperAcquire(th) ==
    /\ th[1] = "reaper"
    /\ Acquire(th, "TASKS_LOCK", "sweep", "sweep_locked")

\* the sweep; time.sleep(30) after the block
LkSweep(th) ==
    /\ lpc[th] = "sweep_locked"
    /\ TASKS' = Reap(TASKS, rnow)
    /\ Release(th, "TASKS_LOCK", "idle")
    /\ UNCHANGED << now, _active_streams, rnow >>
    /\ UNCHANGED nonLockVars

\* the steps a thread takes while it holds a lock
LkInside(th) ==
    \/ \E allowed \in BOOLEAN : LkRate(th, allowed)
    \/ LkGate(th) \/ LkDenyWritten(th) \/ LkSpawn(th) \/ LkFull(th)
    \/ LkMark(th) \/ LkRelease(th) \/ LkLookup(th) \/ LkSweep(th)

LockNext ==
    \/ \E th \in LockThreads : LkRateAcquire(th)
    \/ \E th \in LockThreads : \E allowed \in BOOLEAN : LkRate(th, allowed)
    \/ \E th \in LockThreads : LkGateAcquire(th)
    \/ \E th \in LockThreads : LkGate(th)
    \/ \E th \in LockThreads : LkDenyWritten(th)
    \/ \E th \in LockThreads : LkSpawnAcquire(th)
    \/ \E th \in LockThreads : LkSpawn(th)
    \/ \E th \in LockThreads : LkFullAcquire(th)
    \/ \E th \in LockThreads : LkFull(th)
    \/ \E th \in LockThreads : LkStart(th)
    \/ \E th \in LockThreads : \E raised \in BOOLEAN : LkPopen(th, raised)
    \/ \E th \in LockThreads : LkRead(th)
    \/ \E th \in LockThreads : LkMarkAcquire(th)
    \/ \E th \in LockThreads : LkMark(th)
    \/ \E th \in LockThreads : LkReleaseAcquire(th)
    \/ \E th \in LockThreads : LkRelease(th)
    \/ \E th \in LockThreads : LkLookupAcquire(th)
    \/ \E th \in LockThreads : LkLookup(th)
    \/ \E th \in LockThreads : \E marker \in BOOLEAN : LkGet(th, marker)
    \/ \E th \in LockThreads : LkReaperClock(th)
    \/ \E th \in LockThreads : LkReaperAcquire(th)
    \/ \E th \in LockThreads : LkSweep(th)

\* a thread inside a "with" block runs on to its end
LockFairness == \A th \in LockThreads : WF_vars(LkInside(th))

LockSpec == Init /\ [][LockNext]_vars /\ LockFairness

\* the locks thread th holds
HeldBy(th) == { l \in Locks : lock[l] = th }

\* positions in which a thread spawns the child, reads its output, waits
\* for the queue or sleeps
BlockingPcs == { "popen", "read", "get", "idle" }

\* the positions inside the "with" blocks of lock l
InsidePcs(l) ==
    IF l = "_rate_lock" THEN { "rate_locked" }
    ELSE IF l = "TASKS_LOCK"
    THEN { "spawn_locked", "mark_locked", "lookup_locked", "sweep_locked" }
    ELSE { "gate_locked", "deny_write", "full_locked", "release_locked" }

\* no thread holds two locks
C36_AtMostOne == \A th \in LockThreads : Cardinality(HeldBy(th)) <= 1

\* no thread holds a lock while it spawns, reads, waits for the queue or
\* sleeps
C36_NoneAcrossBlocking ==
    \A th \in LockThreads : lpc[th] \in BlockingPcs => HeldBy(th) = {}

\* the holder of a lock is inside that lock's block, where it waits for no
\* lock and no other thread
C36_HolderInside ==
    \A l \in Locks : lock[l] # Free => lpc[lock[l]] \in InsidePcs(l)

\* every lock that is held becomes free
C36_Freed == \A l \in Locks : (lock[l] # Free) ~> (lock[l] = Free)

----------------------------------------------------------------------------
(* The completion time of a task *)

\* a step leaves the finished_at of every task that has one, and stays
\* registered, as it is
C37_Step ==
    \A t \in DOMAIN TASKS :
        (Truthy(TASKS[t].finished_at) /\ t \in DOMAIN TASKS') =>
            TASKS'[t].finished_at = TASKS[t].finished_at

(* C37: once a task's finished_at has been set it is never changed again   *)
(* while the task is in the registry, whatever producers and consumers do  *)
(* later, so the task's expiry is fixed by its first completion.           *)
C37_CompletionFixed == [][C37_Step]_vars

----------------------------------------------------------------------------
(* Tasks in progress and gate tokens *)

\* the registered tasks whose finished_at is unset
Unfinished == { t \in DOMAIN TASKS : TASKS[t].finished_at = None }

(* C38: in every reachable state the number of registered tasks whose      *)
(* finished_at is unset is at most the gate counter _active_streams, under *)
(* any interleaving of admissions, completions, consumers and the reaper.  *)
C38_UnfinishedBacked == Cardinality(Unfinished) <= _active_streams

BackedReqs == {1, 2}
BackedCons == {1}

\* two streaming executions with silent children, a consumer that may
\* attach to either, the reaper and the clock
BackedNext ==
    \/ \E r \in BackedReqs : RunStreamGate(r)
    \/ \E r \in BackedReqs : RunStreamSpawnTask(r)
    \/ \E r \in BackedReqs : Popen(r, <<>>)
    \/ \E r \in BackedReqs : QuietProducer(r)
    \/ \E r \in BackedReqs : ChildExit(r)
    \/ \E c \in BackedCons : Consumer(c, BackedReqs)
    \/ Reaper
    \/ Tick

BackedSpec == Init /\ [][BackedNext]_vars

\* one task is finished, marked a second time by the consumer and its slot
\* given back, the other is still running on its slot
C38_Witness ==
    /\ Cardinality(Unfinished) = 1
    /\ _active_streams = 1
    /\ \E r \in BackedReqs :
          /\ pc[r] = "done" /\ r \in DOMAIN TASKS /\ r \notin Unfinished
          /\ cpc[1] = "ended" /\ ctid[1] = r

----------------------------------------------------------------------------
(* Two write requests one after the other *)

\* the request of w has been answered
Answered(w) == wpc[w] \in {"ok", "error", "rejected"}

\* request 2 arrives when request 1 has been answered
WriteSeqNext ==
    \/ Write(1)
    \/ Answered(1) /\ Write(2)

WriteSeqSpec == Init /\ [][WriteSeqNext]_vars

\* request 2 had a path inside ROOT, and it was not the path of request 1
OtherPath == wpc[2] \in {"ok", "error"} /\ wp[2] # wp[1]

\* the file request 1 wrote is, after request 2 to another path, what
\* request 1 made it
C39_WrittenFileKept ==
    (wpc[1] = "ok" /\ Answered(2) /\ (wpc[2] = "rejected" \/ OtherPath)) =>
        At(wp[1]) = << Content(1) >>

\* the file of the tree at start is, after two requests to other paths,
\* what it was
C39_InitFileKept ==
    \A path \in DOMAIN InitNames :
        ( /\ Answered(1) /\ Answered(2)
          /\ wpc[1] = "rejected" \/ wp[1] # path
          /\ wpc[2] = "rejected" \/ wp[2] # path ) =>
            At(path) = InitAt(path)

(* C39: a write to path p, successful or failed, changes no file under     *)
(* ROOT other than p itself: every file that was there before and is not   *)
(* p, one named p + '.tmp' included, exists and has the same content after *)
(* the request.                                                            *)
C39_OtherFilesUntouched == C39_WrittenFileKept /\ C39_InitFileKept

====
